---- MODULE Spec2Model ----
(* Firebase-to-relational synchronisation of FASTPAY_BASE (BACKEND/api):    *)
(* the external data fetchers, hard_sync_device_from_firebase, the          *)
(* message-only sync, the device upload endpoints and the sync bookkeeping  *)
(* on the Device row.                                                       *)
EXTENDS Integers, Sequences, FiniteSets, TLC

VARIABLES
    sdk,            \* FIREBASE_AVAILABLE: the firebase_admin import succeeded
    fbApp,          \* the process-wide firebase_admin app singleton exists
    fbEnv,          \* [url, creds]: FIREBASE_DATABASE_URL set / credentials usable
    store,          \* the external tree store: path -> value
    unreachable,    \* paths whose ref.get() raises
    devices,        \* Device table: device_id -> row (DOMAIN = existing rows)
    messages,       \* Message table: sequence of rows
    notifications,  \* Notification table: sequence of rows
    contacts,       \* Contact table: sequence of rows
    clock,          \* timezone.now(), one tick per operation
    last,           \* the operation that ran last, with its arguments and result
    prev,           \* the operation that ran before it
    lastRun,        \* per device: outcome of its most recent reconciliation run
    statusBy,       \* per device: the operation that last assigned sync_status
    codes,          \* Device.code: device_id -> code, for the rows whose code is not NULL
    cards,          \* BankCard table: device_id -> status (one card per device)
    syncLogs,       \* FirebaseSyncLog rows written by the sync commands, oldest first
    command,        \* the sync command in progress: None, or Some(its options)
    cache,          \* django.core.cache: key -> value, for the keys that are set
    threads,        \* per request thread: where it is in its handler, and its locals
    tally           \* what the request threads answered so far

vars == <<sdk, fbApp, fbEnv, store, unreachable, devices, messages,
          notifications, contacts, clock, last, prev, lastRun, statusBy,
          codes, cards, syncLogs, command,
          cache, threads, tally>>

----------------------------------------------------------------------------
(* Bounds *)

MaxOps == 3

MaxFetches == 1
MaxFleetOps == 2

Devices == {"D1", "D2"}

Threads == {1, 2}

Emails == {"a@x", "b@x"}

Purposes == {"password_reset", "email_change"}

Tokens == {"t1", "t2"}

----------------------------------------------------------------------------
(* Python values *)

None == <<>>
Some(x) == <<x>>

Digits == {"0", "1", "2", "3", "4", "5", "6", "7", "8", "9"}

DigitVal(c) ==
    CASE c = "0" -> 0 [] c = "1" -> 1 [] c = "2" -> 2 [] c = "3" -> 3
      [] c = "4" -> 4 [] c = "5" -> 5 [] c = "6" -> 6 [] c = "7" -> 7
      [] c = "8" -> 8 [] c = "9" -> 9

RECURSIVE AllDigits(_)
AllDigits(s) ==
    IF Len(s) = 0 THEN TRUE
    ELSE Head(s) \in Digits /\ AllDigits(Tail(s))

\* str.isdigit(): non-empty and every character a digit
isdigit(s) == Len(s) > 0 /\ AllDigits(s)

RECURSIVE DigitsValue(_, _)
DigitsValue(s, acc) ==
    IF Len(s) = 0 THEN acc
    ELSE DigitsValue(Tail(s), 10 * acc + DigitVal(Head(s)))

\* int(s) for a str of digits or letters (signs, blanks and underscores do
\* not occur in the keys used here): the value, or ValueError with Python's
\* message
int(s) ==
    IF isdigit(s)
    THEN [raised |-> FALSE, value |-> DigitsValue(s, 0)]
    ELSE [raised |-> TRUE,
          exc |-> "invalid literal for int() with base 10: '" \o s \o "'"]

----------------------------------------------------------------------------
(* The external store *)

Absent == [kind |-> "none"]

Truthy(v) ==
    /\ v.kind # "none"
    /\ (v.kind \in {"dict", "list"} => Len(v.entries) > 0)

DeviceInfoPaths(d) ==
    << "device/" \o d,
       "fastpay/" \o d,
       "fastpay/testing/" \o d,
       "fastpay/running/" \o d >>

MessagePaths(d) ==
    << "fastpay/" \o d \o "/messages",
       "message/" \o d,
       "fastpay/testing/" \o d \o "/messages",
       "fastpay/running/" \o d \o "/messages" >>

NotificationPaths(d) ==
    << "device/" \o d \o "/Notification",
       "fastpay/" \o d \o "/Notification",
       "notification/" \o d,
       "fastpay/testing/" \o d \o "/Notification",
       "fastpay/running/" \o d \o "/Notification" >>

ContactPaths(d) ==
    << "device/" \o d \o "/Contact",
       "fastpay/" \o d \o "/Contact",
       "contact/" \o d,
       "fastpay/testing/" \o d \o "/Contact",
       "fastpay/running/" \o d \o "/Contact" >>

Range(s) == {s[i] : i \in 1..Len(s)}

PathsOf(kind, d) ==
    CASE kind = "info" -> DeviceInfoPaths(d)
      [] kind = "messages" -> MessagePaths(d)
      [] kind = "notifications" -> NotificationPaths(d)
      [] kind = "contacts" -> ContactPaths(d)

Kinds == {"info", "messages", "notifications", "contacts"}

AllPaths == UNION {Range(PathsOf(k, d)) : k \in Kinds, d \in Devices}

EmptyDict == [kind |-> "dict", entries |-> <<>>]

\* ref.get() on one path: the value, or an exception when the read fails
RefGet(st, unr, path) ==
    IF path \in unr THEN [raised |-> TRUE]
    ELSE [raised |-> FALSE, value |-> st[path]]

----------------------------------------------------------------------------
(* External Data Fetcher *)

initialize_firebase(sdkOk, app, env) ==
    IF ~sdkOk
    THEN [raised |-> TRUE, app |-> app,
          exc |-> "Firebase Admin SDK not installed. Install with: pip install firebase-admin"]
    ELSE IF app
    THEN [raised |-> FALSE, app |-> TRUE]
    ELSE IF ~env.url
    THEN [raised |-> TRUE, app |-> FALSE,
          exc |-> "FIREBASE_DATABASE_URL environment variable is required"]
    ELSE IF env.creds
    THEN [raised |-> FALSE, app |-> TRUE]
    ELSE [raised |-> TRUE, app |-> FALSE,
          exc |-> "Firebase initialization failed. Provide FIREBASE_CREDENTIALS_PATH or use default credentials. Error: "]

\* the path loop without its break: the last truthy value wins
RECURSIVE FirstNonEmpty_LastWins(_, _, _, _)
FirstNonEmpty_LastWins(st, unr, paths, i) ==
    IF i > Len(paths) THEN EmptyDict
    ELSE LET r == RefGet(st, unr, paths[i])
             later == FirstNonEmpty_LastWins(st, unr, paths, i + 1)
         IN IF Truthy(later) THEN later
            ELSE IF ~r.raised /\ Truthy(r.value) THEN r.value
            ELSE EmptyDict

\* the loop over paths_to_try: the first truthy value, a failed read is skipped
RECURSIVE FirstNonEmpty(_, _, _, _)
FirstNonEmpty(st, unr, paths, i) ==
    IF i > Len(paths) THEN EmptyDict
    ELSE LET r == RefGet(st, unr, paths[i]) IN
         IF ~r.raised /\ Truthy(r.value) THEN r.value
         ELSE FirstNonEmpty(st, unr, paths, i + 1)

\* the body every fetcher shares: availability check, initialisation, path loop
\* FetchInitialized that lets the initialisation error escape
FetchInitialized_Raises(ini, st, unr, paths) ==
    IF ini.raised
    THEN [raised |-> TRUE, app |-> ini.app, exc |-> ini.exc]
    ELSE [raised |-> FALSE, app |-> ini.app,
          value |-> FirstNonEmpty(st, unr, paths, 1)]

\* ini: what initialize_firebase() did; a failed initialisation is swallowed
FetchInitialized(ini, st, unr, paths) ==
    IF ini.raised
    THEN [raised |-> FALSE, app |-> ini.app, value |-> EmptyDict]
    ELSE [raised |-> FALSE, app |-> ini.app,
          value |-> FirstNonEmpty(st, unr, paths, 1)]

FetchFrom(sdkOk, app, env, st, unr, paths) ==
    IF ~sdkOk
    THEN [raised |-> TRUE, app |-> app, exc |-> "Firebase Admin SDK not available"]
    ELSE FetchInitialized(initialize_firebase(sdkOk, app, env), st, unr, paths)

\* key=lambda x: int(x) if x.isdigit() else 0
SortKey(k) == IF isdigit(k) THEN DigitsValue(k, 0) ELSE 0

\* insert e into a sequence sorted by SortKey descending, after its equals
RECURSIVE InsertDesc(_, _)
InsertDesc(sorted, e) ==
    IF Len(sorted) = 0 THEN <<e>>
    ELSE IF SortKey(Head(sorted).k) >= SortKey(e.k)
         THEN <<Head(sorted)>> \o InsertDesc(Tail(sorted), e)
         ELSE <<e>> \o sorted

\* sorted(messages.keys(), key=..., reverse=True): stable, greatest first
RECURSIVE SortDesc(_)
SortDesc(entries) ==
    IF Len(entries) = 0 THEN <<>>
    ELSE InsertDesc(SortDesc(SubSeq(entries, 1, Len(entries) - 1)),
                    entries[Len(entries)])

Take(s, n) == SubSeq(s, 1, IF n < Len(s) THEN n ELSE Len(s))

\* limit = 0 stands for None (both are falsy)
\* "if limit and messages": keep the limit newest keys of what was fetched
LimitMessages(f, limit) ==
    IF f.raised THEN f
    ELSE IF limit # 0 /\ Truthy(f.value)
    THEN IF f.value.kind # "dict"
         THEN [raised |-> TRUE, app |-> f.app,
               exc |-> "'list' object has no attribute 'keys'"]
         ELSE [f EXCEPT !.value =
                  [kind |-> "dict", entries |-> Take(SortDesc(f.value.entries), limit)]]
    ELSE f

get_firebase_messages_for_device(sdkOk, app, env, st, unr, d, limit) ==
    LimitMessages(FetchFrom(sdkOk, app, env, st, unr, MessagePaths(d)), limit)

get_firebase_notifications_for_device(sdkOk, app, env, st, unr, d) ==
    FetchFrom(sdkOk, app, env, st, unr, NotificationPaths(d))

get_firebase_contacts_for_device(sdkOk, app, env, st, unr, d) ==
    FetchFrom(sdkOk, app, env, st, unr, ContactPaths(d))

get_firebase_device_info(sdkOk, app, env, st, unr, d) ==
    FetchFrom(sdkOk, app, env, st, unr, DeviceInfoPaths(d))

Fetch(kind, sdkOk, app, env, st, unr, d, limit) ==
    CASE kind = "info" -> get_firebase_device_info(sdkOk, app, env, st, unr, d)
      [] kind = "messages" ->
            get_firebase_messages_for_device(sdkOk, app, env, st, unr, d, limit)
      [] kind = "notifications" ->
            get_firebase_notifications_for_device(sdkOk, app, env, st, unr, d)
      [] kind = "contacts" ->
            get_firebase_contacts_for_device(sdkOk, app, env, st, unr, d)


----------------------------------------------------------------------------
(* Record Reconciler *)

ErrorMessageLimit == 500

RECURSIVE Join(_, _)
\* sep.join(strs)
Join(strs, sep) ==
    IF Len(strs) = 0 THEN ""
    ELSE IF Len(strs) = 1 THEN strs[1]
    ELSE strs[1] \o sep \o Join(Tail(strs), sep)

\* indexes of the rows of a table with the given natural key
Matching(rows, d, key, field) ==
    {i \in 1..Len(rows) : rows[i].device = d /\ rows[i][field] = key}

\* the counters one kind accumulates, with the table and the errors list
NewAcc(rows, errors) ==
    [rows |-> rows, created |-> 0, updated |-> 0, skipped |-> 0, errors |-> errors]

MultipleObjects(model, n) ==
    "get() returned more than one " \o model \o " -- it returned " \o ToString(n) \o "!"

\* Upsert with create() in place of get_or_create()
Upsert_AlwaysCreates(acc, d, field, key, row, update_existing, model) ==
    [raised |-> FALSE,
     acc |-> [acc EXCEPT !.rows = Append(@, row), !.created = @ + 1]]

\* Upsert whose update_existing branch counts the row but does not save it
Upsert_UpdateNotSaved(acc, d, field, key, row, update_existing, model) ==
    LET hits == Matching(acc.rows, d, key, field) IN
    IF hits = {}
    THEN [raised |-> FALSE,
          acc |-> [acc EXCEPT !.rows = Append(@, row), !.created = @ + 1]]
    ELSE IF update_existing
    THEN [raised |-> FALSE, acc |-> [acc EXCEPT !.updated = @ + 1]]
    ELSE [raised |-> FALSE, acc |-> [acc EXCEPT !.skipped = @ + 1]]

\* Model.objects.get_or_create(device, key, defaults) followed by the
\* created / update_existing / skipped branches
Upsert(acc, d, field, key, row, update_existing, model) ==
    LET hits == Matching(acc.rows, d, key, field) IN
    IF hits = {}
    THEN [raised |-> FALSE,
          acc |-> [acc EXCEPT !.rows = Append(@, row), !.created = @ + 1]]
    ELSE IF Cardinality(hits) > 1
    THEN [raised |-> TRUE, exc |-> MultipleObjects(model, Cardinality(hits))]
    ELSE IF update_existing
    THEN [raised |-> FALSE,
          acc |-> [acc EXCEPT !.rows = [i \in 1..Len(@) |->
                                           IF i \in hits THEN row ELSE @[i]],
                              !.updated = @ + 1]]
    ELSE [raised |-> FALSE, acc |-> [acc EXCEPT !.skipped = @ + 1]]

NormalizeType(t) == IF t \in {"received", "sent"} THEN t ELSE "received"

\* SyncMessageEntry without the else branch for other shapes
SyncMessageEntry_ShapeUnchecked(acc, d, e, update_existing) ==
    IF int(e.k).raised
    THEN [acc EXCEPT !.errors =
             Append(@, "Error processing message " \o e.k \o ": " \o int(e.k).exc)]
    ELSE Upsert(acc, d, "timestamp", int(e.k).value,
                [device |-> d, timestamp |-> int(e.k).value,
                 message_type |-> NormalizeType(e.v)],
                update_existing, "Message").acc

\* SyncMessageEntry whose except branch also counts the record as skipped
SyncMessageEntry_ErrorSkipped(acc, d, e, update_existing) ==
    IF int(e.k).raised
    THEN [acc EXCEPT !.errors =
             Append(@, "Error processing message " \o e.k \o ": " \o int(e.k).exc),
                     !.skipped = @ + 1]
    ELSE IF e.shape \notin {"dict", "str"}
    THEN [acc EXCEPT !.skipped = @ + 1]
    ELSE Upsert(acc, d, "timestamp", int(e.k).value,
                [device |-> d, timestamp |-> int(e.k).value,
                 message_type |-> NormalizeType(e.v)],
                update_existing, "Message").acc

\* one iteration of the message loop
SyncMessageEntry(acc, d, e, update_existing) ==
    LET t == int(e.k)
        fail(exc) == [acc EXCEPT !.errors =
                         Append(@, "Error processing message " \o e.k \o ": " \o exc)]
    IN
    IF t.raised THEN fail(t.exc)
    ELSE IF e.shape \notin {"dict", "str"}
    THEN [acc EXCEPT !.skipped = @ + 1]
    ELSE LET u == Upsert(acc, d, "timestamp", t.value,
                         [device |-> d, timestamp |-> t.value,
                          message_type |-> NormalizeType(e.v)],
                         update_existing, "Message")
         IN IF u.raised THEN fail(u.exc) ELSE u.acc

\* one iteration of the notification loop
SyncNotificationEntry(acc, d, e, update_existing) ==
    LET t == int(e.k)
        fail(exc) == [acc EXCEPT !.errors =
                         Append(@, "Error processing notification " \o e.k \o ": " \o exc)]
    IN
    IF t.raised THEN fail(t.exc)
    ELSE IF e.shape \notin {"dict", "str"}
    THEN [acc EXCEPT !.skipped = @ + 1]
    ELSE IF e.v = ""
    THEN acc
    ELSE LET u == Upsert(acc, d, "timestamp", t.value,
                         [device |-> d, timestamp |-> t.value, package_name |-> e.v],
                         update_existing, "Notification")
         IN IF u.raised THEN fail(u.exc) ELSE u.acc

\* one iteration of the contact loop
SyncContactEntry(acc, d, e, update_existing) ==
    LET name == IF e.shape = "dict" THEN e.v ELSE ""
        u == Upsert(acc, d, "phone_number", e.k,
                    [device |-> d, phone_number |-> e.k, name |-> name],
                    update_existing, "Contact")
    IN IF u.raised
       THEN [acc EXCEPT !.errors =
                Append(@, "Error processing contact " \o e.k \o ": " \o u.exc)]
       ELSE u.acc

SyncEntry(kind, acc, d, e, update_existing) ==
    CASE kind = "messages" -> SyncMessageEntry(acc, d, e, update_existing)
      [] kind = "notifications" -> SyncNotificationEntry(acc, d, e, update_existing)
      [] kind = "contacts" -> SyncContactEntry(acc, d, e, update_existing)

\* the loop with the try around it instead of inside it: the first record
\* that raises ends the loop
RECURSIVE SyncEntries_StopOnError(_, _, _, _, _)
SyncEntries_StopOnError(kind, acc, d, entries, update_existing) ==
    IF Len(entries) = 0 THEN acc
    ELSE IF Len(SyncEntry(kind, acc, d, Head(entries), update_existing).errors)
                > Len(acc.errors)
    THEN SyncEntry(kind, acc, d, Head(entries), update_existing)
    ELSE SyncEntries_StopOnError(kind,
                                 SyncEntry(kind, acc, d, Head(entries), update_existing),
                                 d, Tail(entries), update_existing)

\* for key, data in fetched.items(): ...
RECURSIVE SyncEntries(_, _, _, _, _)
SyncEntries(kind, acc, d, entries, update_existing) ==
    IF Len(entries) = 0 THEN acc
    ELSE SyncEntries(kind, SyncEntry(kind, acc, d, Head(entries), update_existing),
                     d, Tail(entries), update_existing)


----------------------------------------------------------------------------
(* Sync Orchestrator: hard_sync_device_from_firebase *)

\* the text of the exception a failing database write raises
DatabaseError == "connection already closed"

NewResult(d) ==
    [device_id |-> d,
     device_created |-> FALSE,
     device_updated |-> FALSE,
     messages_fetched |-> 0,
     messages_created |-> 0,
     messages_updated |-> 0,
     messages_skipped |-> 0,
     notifications_fetched |-> 0,
     notifications_created |-> 0,
     notifications_updated |-> 0,
     notifications_skipped |-> 0,
     contacts_fetched |-> 0,
     contacts_created |-> 0,
     contacts_updated |-> 0,
     contacts_skipped |-> 0,
     errors |-> <<>>]

\* the choices declared for Device.sync_status
SyncStatusChoices == {"never_synced", "syncing", "synced", "sync_failed", "out_of_sync"}

\* a Device row as Device.objects.get_or_create(defaults=...) inserts it
NewDevice(name, status) ==
    [name |-> name,
     sync_status |-> status,
     sync_error_message |-> None,
     last_sync_at |-> None,
     last_hard_sync_at |-> None,
     messages_last_synced_at |-> None,
     notifications_last_synced_at |-> None,
     contacts_last_synced_at |-> None,
     sync_metadata |-> <<>>]

\* the run's trace: a fetch from the store, the write of the Device row or
\* the writes of a section's rows, with the Device row's status at that time
Logged(s, ev, kind) ==
    [s EXCEPT !.log =
        Append(@, [ev |-> ev, kind |-> kind,
                   status |-> IF s.result.device_id \in DOMAIN s.db.devices
                              THEN s.db.devices[s.result.device_id].sync_status
                              ELSE "missing"])]

\* the transaction.atomic() block: mark syncing, get_or_create, update
SyncDeviceInfo(s, info, d, update_existing) ==
    IF d \in DOMAIN s.db.devices
    THEN LET row == [s.db.devices[d] EXCEPT !.sync_status = "syncing",
                                            !.sync_error_message = None]
         IN IF update_existing
            THEN [s EXCEPT
                    !.db.devices[d] =
                        [row EXCEPT !.name = IF info.name # None THEN info.name ELSE @],
                    !.result.device_updated = TRUE,
                    !.assigned = TRUE]
            ELSE [s EXCEPT !.db.devices[d] = row, !.assigned = TRUE]
    ELSE [s EXCEPT
            !.db.devices = [x \in DOMAIN @ \cup {d} |->
                               IF x = d THEN NewDevice(info.name, "syncing") ELSE @[x]],
            !.result.device_created = TRUE,
            !.assigned = TRUE]

\* one "Sync Messages / Notifications / Contacts" section; s.exc is the
\* exception that has escaped to the outer handler, if any
\* the counters and rows of one finished loop go into the result and the db
SyncReconciled(kind, s, acc) ==
    [s EXCEPT !.db[kind] = acc.rows,
              !.result[kind \o "_created"] = acc.created,
              !.result[kind \o "_updated"] = acc.updated,
              !.result[kind \o "_skipped"] = @ + acc.skipped,
              !.result.errors = acc.errors,
              !.log = IF acc.created + acc.updated > 0
                      THEN Logged(s, "rows", kind).log ELSE @]

\* result['<kind>_fetched'] = len(fetched); for key, data in fetched.items()
SyncFetched(kind, s, f, d, update_existing) ==
    IF f.raised THEN [s EXCEPT !.exc = Some(f.exc), !.app = f.app]
    ELSE IF f.value.kind # "dict"
    THEN [s EXCEPT !.app = f.app,
                   !.result[kind \o "_fetched"] = Len(f.value.entries),
                   !.exc = Some("'list' object has no attribute 'items'")]
    ELSE SyncReconciled(kind,
                        [s EXCEPT !.app = f.app,
                                  !.result[kind \o "_fetched"] = Len(f.value.entries)],
                        SyncEntries(kind, NewAcc(s.db[kind], s.result.errors),
                                    d, f.value.entries, update_existing))

SyncKind(kind, s, sdkOk, env, st, unr, d, update_existing) ==
    IF s.exc # None THEN s
    ELSE SyncFetched(kind, Logged(s, "fetch", kind),
                     Fetch(kind, sdkOk, s.app, env, st, unr, d, 0),
                     d, update_existing)

SyncMetadata(r) ==
    [last_sync_messages_count |-> r.messages_fetched,
     last_sync_notifications_count |-> r.notifications_fetched,
     last_sync_contacts_count |-> r.contacts_fetched,
     last_sync_messages_created |-> r.messages_created,
     last_sync_messages_updated |-> r.messages_updated,
     last_sync_notifications_created |-> r.notifications_created,
     last_sync_notifications_updated |-> r.notifications_updated,
     last_sync_contacts_created |-> r.contacts_created,
     last_sync_contacts_updated |-> r.contacts_updated]

\* StatusWriteBack that forgets last_hard_sync_at on success
StatusWriteBack_NoHardSyncTime(row, r, now) ==
    LET a == IF Len(r.errors) > 0
             THEN [row EXCEPT
                     !.sync_status = "sync_failed",
                     !.sync_error_message =
                         Some(Join(Take(r.errors, ErrorMessageLimit), "; "))]
             ELSE [row EXCEPT
                     !.sync_status = "synced",
                     !.sync_error_message = None,
                     !.last_sync_at = Some(now)]
    IN [a EXCEPT !.sync_metadata = SyncMetadata(r)]

\* the row the "Update device sync status and timestamps" block saves
StatusWriteBack(row, r, now) ==
    LET a == IF Len(r.errors) > 0
             THEN [row EXCEPT
                     !.sync_status = "sync_failed",
                     !.sync_error_message =
                         Some(Join(Take(r.errors, ErrorMessageLimit), "; "))]
             ELSE [row EXCEPT
                     !.sync_status = "synced",
                     !.sync_error_message = None,
                     !.last_sync_at = Some(now),
                     !.last_hard_sync_at = Some(now)]
        b == IF r.messages_fetched > 0
             THEN [a EXCEPT !.messages_last_synced_at = Some(now)] ELSE a
        c == IF r.notifications_fetched > 0
             THEN [b EXCEPT !.notifications_last_synced_at = Some(now)] ELSE b
        e == IF r.contacts_fetched > 0
             THEN [c EXCEPT !.contacts_last_synced_at = Some(now)] ELSE c
    IN [e EXCEPT !.sync_metadata = SyncMetadata(r)]

\* the inner try around the write-back: a failure is appended to errors
UpdateSyncStatus(s, now, d, saveFails) ==
    IF s.exc # None THEN s
    ELSE IF d \notin DOMAIN s.db.devices
    THEN [s EXCEPT !.result.errors =
             Append(@, "Error updating device sync status: "
                       \o "Device matching query does not exist.")]
    ELSE IF saveFails
    THEN [s EXCEPT !.result.errors =
             Append(@, "Error updating device sync status: " \o DatabaseError)]
    ELSE [s EXCEPT !.db.devices[d] = StatusWriteBack(@, s.result, now),
                   !.assigned = TRUE]

\* HardSyncFailed that reports the exception without touching the row
HardSyncFailed_StatusKept(s, d, saveFails) ==
    IF s.exc = None THEN s
    ELSE [s EXCEPT !.result.errors = Append(@, "Hard sync failed: " \o s.exc[1])]

\* the outer "except Exception as e" handler
HardSyncFailed(s, d, saveFails) ==
    IF s.exc = None THEN s
    ELSE LET e == s.exc[1]
             s1 == [s EXCEPT !.result.errors = Append(@, "Hard sync failed: " \o e)]
         IN IF d \in DOMAIN s.db.devices /\ ~saveFails
            THEN [s1 EXCEPT !.db.devices[d] =
                     [@ EXCEPT !.sync_status = "sync_failed",
                               !.sync_error_message = Some(Take(e, ErrorMessageLimit))],
                          !.assigned = TRUE]
            ELSE s1

\* db = [devices, messages, notifications, contacts]; saveFails: the final
\* device.save() raises.  Returns [db, result, app, exc, assigned], assigned
\* telling whether the run stored a sync_status on the device's row, plus the
\* run's trace (log).
\* the three sections in order, then the status write-back
SyncSections(s, sdkOk, env, st, unr, now, d, update_existing, saveFails) ==
    UpdateSyncStatus(
        SyncKind("contacts",
            SyncKind("notifications",
                SyncKind("messages", s, sdkOk, env, st, unr, d, update_existing),
                sdkOk, env, st, unr, d, update_existing),
            sdkOk, env, st, unr, d, update_existing),
        now, d, saveFails)

\* HardSyncWithInfo that writes the Device row after the three sections
HardSyncWithInfo_ChildrenFirst(s0, info, sdkOk, env, st, unr, now, d, update_existing, saveFails) ==
    IF info.raised
    THEN HardSyncFailed([s0 EXCEPT !.exc = Some(info.exc), !.app = info.app],
                        d, saveFails)
    ELSE IF ~Truthy(info.value)
    THEN [s0 EXCEPT !.app = info.app,
                    !.result.errors =
                        <<"No device data found in Firebase for device " \o d>>]
    ELSE HardSyncFailed(
             UpdateSyncStatus(
                 Logged(SyncDeviceInfo(
                            SyncKind("contacts",
                                SyncKind("notifications",
                                    SyncKind("messages", [s0 EXCEPT !.app = info.app],
                                             sdkOk, env, st, unr, d, update_existing),
                                    sdkOk, env, st, unr, d, update_existing),
                                sdkOk, env, st, unr, d, update_existing),
                            info.value, d, update_existing),
                        "device", "info"),
                 now, d, saveFails),
             d, saveFails)

\* the body of the outer try once device info has been fetched
HardSyncWithInfo(s0, info, sdkOk, env, st, unr, now, d, update_existing, saveFails) ==
    IF info.raised
    THEN HardSyncFailed([s0 EXCEPT !.exc = Some(info.exc), !.app = info.app],
                        d, saveFails)
    ELSE IF ~Truthy(info.value)
    THEN [s0 EXCEPT !.app = info.app,
                    !.result.errors =
                        <<"No device data found in Firebase for device " \o d>>]
    ELSE HardSyncFailed(
             SyncSections(Logged(SyncDeviceInfo([s0 EXCEPT !.app = info.app],
                                                info.value, d, update_existing),
                                 "device", "info"),
                          sdkOk, env, st, unr, now, d, update_existing, saveFails),
             d, saveFails)

hard_sync_device_from_firebase(sdkOk, app, env, st, unr, db, now, d, update_existing, saveFails) ==
    HardSyncWithInfo(Logged([db |-> db, result |-> NewResult(d), app |-> app,
                             exc |-> None, assigned |-> FALSE, log |-> <<>>],
                            "fetch", "info"),
                     get_firebase_device_info(sdkOk, app, env, st, unr, d),
                     sdkOk, env, st, unr, now, d, update_existing, saveFails)


----------------------------------------------------------------------------
(* Message-only sync: sync_messages_from_firebase, clean_firebase_messages *)

\* one iteration of the loop inside transaction.atomic()
SyncMessagesEntry(acc, d, e) ==
    LET t == int(e.k) IN
    IF t.raised
    THEN [acc EXCEPT !.errors =
             Append(@, "Error processing message " \o e.k \o ": " \o t.exc)]
    ELSE IF e.shape \notin {"dict", "str"}
    THEN [acc EXCEPT !.skipped = @ + 1]
    ELSE IF Matching(acc.rows, d, t.value, "timestamp") # {}
    THEN [acc EXCEPT !.skipped = @ + 1]
    ELSE [acc EXCEPT !.rows = Append(@, [device |-> d, timestamp |-> t.value,
                                         message_type |-> NormalizeType(e.v)]),
                     !.created = @ + 1]

RECURSIVE SyncMessagesEntries(_, _, _)
SyncMessagesEntries(acc, d, entries) ==
    IF Len(entries) = 0 THEN acc
    ELSE SyncMessagesEntries(SyncMessagesEntry(acc, d, Head(entries)), d, Tail(entries))

CleanPaths(d) == << "fastpay/" \o d \o "/messages", "message/" \o d >>

\* the loop of clean_firebase_messages over its two paths; returns the store
RECURSIVE CleanFrom(_, _, _, _, _)
CleanFrom(st, unr, paths, i, keep_latest) ==
    IF i > Len(paths) THEN st
    ELSE LET r == RefGet(st, unr, paths[i]) IN
         IF r.raised \/ ~Truthy(r.value) \/ r.value.kind # "dict"
         THEN CleanFrom(st, unr, paths, i + 1, keep_latest)
         ELSE LET sorted == SortDesc(r.value.entries)
                  doomed == {sorted[j].k : j \in (keep_latest + 1)..Len(sorted)}
                  kept == SelectSeq(r.value.entries, LAMBDA e : e.k \notin doomed)
              IN IF Len(sorted) > keep_latest
                 THEN [st EXCEPT ![paths[i]] =
                          IF Len(kept) = 0 THEN Absent
                          ELSE [kind |-> "dict", entries |-> kept]]
                 ELSE st

\* ini: what initialize_firebase() did; its exception propagates
CleanInitialized(ini, st, unr, d, keep_latest) ==
    IF ini.raised
    THEN [raised |-> TRUE, app |-> ini.app, store |-> st, exc |-> ini.exc]
    ELSE [raised |-> FALSE, app |-> ini.app,
          store |-> CleanFrom(st, unr, CleanPaths(d), 1, keep_latest)]

clean_firebase_messages(sdkOk, app, env, st, unr, d, keep_latest) ==
    IF ~sdkOk
    THEN [raised |-> TRUE, app |-> app, store |-> st,
          exc |-> "Firebase Admin SDK not available"]
    ELSE CleanInitialized(initialize_firebase(sdkOk, app, env), st, unr, d, keep_latest)

NewMessagesResult(d) ==
    [device_id |-> d,
     messages_fetched |-> 0,
     messages_created |-> 0,
     messages_skipped |-> 0,
     errors |-> <<>>,
     firebase_cleaned |-> FALSE]

MessagesOut(rows, st, app, r) ==
    [messages |-> rows, store |-> st, app |-> app, result |-> r]

\* after the loop: clean_firebase_messages, its failure appended to errors
SyncMessagesCleaned(acc, r, c, st) ==
    IF c.raised
    THEN MessagesOut(acc.rows, st, c.app,
                     [r EXCEPT !.messages_created = acc.created,
                               !.messages_skipped = acc.skipped,
                               !.errors = Append(acc.errors,
                                                 "Error cleaning Firebase: " \o c.exc)])
    ELSE MessagesOut(acc.rows, c.store, c.app,
                     [r EXCEPT !.messages_created = acc.created,
                               !.messages_skipped = acc.skipped,
                               !.errors = acc.errors,
                               !.firebase_cleaned = TRUE])

\* the body of the try once the messages have been fetched
SyncMessagesFetched(f, r0, sdkOk, env, st, unr, db, d, keep_latest) ==
    IF f.raised
    THEN MessagesOut(db.messages, st, f.app,
                     [r0 EXCEPT !.errors = <<"Sync failed: " \o f.exc>>])
    ELSE IF ~Truthy(f.value)
    THEN MessagesOut(db.messages, st, f.app,
                     [r0 EXCEPT !.messages_fetched = Len(f.value.entries)])
    ELSE IF f.value.kind # "dict"
    THEN MessagesOut(db.messages, st, f.app,
                     [r0 EXCEPT !.messages_fetched = Len(f.value.entries),
                                !.errors =
                                    <<"Sync failed: 'list' object has no attribute 'items'">>])
    ELSE SyncMessagesCleaned(
             SyncMessagesEntries(NewAcc(db.messages, <<>>), d, f.value.entries),
             [r0 EXCEPT !.messages_fetched = Len(f.value.entries)],
             clean_firebase_messages(sdkOk, f.app, env, st, unr, d, keep_latest),
             st)

\* returns [messages, store, app, result]
sync_messages_from_firebase(sdkOk, app, env, st, unr, db, d, keep_latest) ==
    IF d \notin DOMAIN db.devices
    THEN MessagesOut(db.messages, st, app,
                     [NewMessagesResult(d) EXCEPT
                         !.errors = <<"Device " \o d \o " not found in Django database">>])
    ELSE SyncMessagesFetched(
             get_firebase_messages_for_device(sdkOk, app, env, st, unr, d, 0),
             NewMessagesResult(d), sdkOk, env, st, unr, db, d, keep_latest)


----------------------------------------------------------------------------
(* Fleet syncs: hard_sync_all_devices_from_firebase,                        *)
(* sync_all_devices_from_firebase                                            *)

\* the top-level collections the discovery reads
DeviceRoot == "device"
FastpayRoot == "fastpay"

\* device_data.keys(): the ids with anything stored under device/<id>
DeviceKeys(st) ==
    {d \in Devices :
        \/ Truthy(st["device/" \o d])
        \/ Truthy(st["device/" \o d \o "/Notification"])
        \/ Truthy(st["device/" \o d \o "/Contact"])}

\* FastpayKeys without the filter: every key of the fastpay collection
FastpayKeys_Unfiltered(st) ==
    {d \in Devices :
        \/ Truthy(st["fastpay/" \o d])
        \/ Truthy(st["fastpay/" \o d \o "/messages"])
        \/ Truthy(st["fastpay/" \o d \o "/Notification"])
        \/ Truthy(st["fastpay/" \o d \o "/Contact"])}

\* the keys of the fastpay collection whose value holds 'messages',
\* 'Notification' or 'Contact'; the "testing" and "running" nodes hold
\* device ids, never such a key
FastpayKeys(st) ==
    {d \in Devices :
        \/ Truthy(st["fastpay/" \o d \o "/messages"])
        \/ Truthy(st["fastpay/" \o d \o "/Notification"])
        \/ Truthy(st["fastpay/" \o d \o "/Contact"])}

\* the inner try of the discovery; ini: what initialize_firebase() did
Discover(ini, st, unr) ==
    IF ini.raised \/ DeviceRoot \in unr \/ FastpayRoot \in unr
    THEN [failed |-> TRUE, app |-> ini.app, ids |-> {}]
    ELSE [failed |-> FALSE, app |-> ini.app, ids |-> DeviceKeys(st) \cup FastpayKeys(st)]

\* all_device_ids
Universe(local, disc) ==
    IF disc.failed THEN local
    ELSE IF disc.ids # {} THEN local \cup disc.ids
    ELSE local

NewFleetResult ==
    [total_devices_processed |-> 0,
     devices_synced |-> 0,
     devices_failed |-> 0,
     total_messages_created |-> 0,
     total_messages_updated |-> 0,
     total_notifications_created |-> 0,
     total_notifications_updated |-> 0,
     total_contacts_created |-> 0,
     total_contacts_updated |-> 0,
     device_results |-> <<>>,
     errors |-> <<>>]

\* FleetCounted that leaves a device with errors out of both counters
FleetCounted_FailedUncounted(result, dr) ==
    [result EXCEPT
        !.device_results = Append(@, dr),
        !.devices_synced = IF Len(dr.errors) > 0 THEN @ ELSE @ + 1,
        !.total_messages_created = @ + dr.messages_created,
        !.total_messages_updated = @ + dr.messages_updated,
        !.total_notifications_created = @ + dr.notifications_created,
        !.total_notifications_updated = @ + dr.notifications_updated,
        !.total_contacts_created = @ + dr.contacts_created,
        !.total_contacts_updated = @ + dr.contacts_updated]

\* the counters of the fleet result after one device's result
FleetCounted(result, dr) ==
    [result EXCEPT
        !.device_results = Append(@, dr),
        !.devices_failed = IF Len(dr.errors) > 0 THEN @ + 1 ELSE @,
        !.devices_synced = IF Len(dr.errors) > 0 THEN @ ELSE @ + 1,
        !.total_messages_created = @ + dr.messages_created,
        !.total_messages_updated = @ + dr.messages_updated,
        !.total_notifications_created = @ + dr.notifications_created,
        !.total_notifications_updated = @ + dr.notifications_updated,
        !.total_contacts_created = @ + dr.contacts_created,
        !.total_contacts_updated = @ + dr.contacts_updated]

\* a fleet function's outer "except Exception as e" handler: the failure
\* becomes an entry of errors and the function still returns
FleetFailed_Propagates(result, prefix) ==
    [raised |-> TRUE, result |-> result]

FleetFailed(result, prefix) ==
    [raised |-> FALSE,
     result |-> [result EXCEPT !.errors = Append(@, prefix \o DatabaseError)]]

\* one iteration of the loop; r: what hard_sync_device_from_firebase did.
\* runs keeps, per device, what the call did beside its returned result.
HardSyncOne(acc, d, r) ==
    [db |-> r.db, app |-> r.app, raised |-> acc.raised,
     result |-> FleetCounted(acc.result, r.result),
     runs |-> Append(acc.runs, [d |-> d, exc |-> r.exc, assigned |-> r.assigned,
                                log |-> r.log, before |-> acc.db, after |-> r.db])]

\* for device_id in all_device_ids, in the order the set yields them;
\* failing: the devices whose final device.save() raises
RECURSIVE HardSyncEach(_, _, _, _, _, _, _, _, _)
HardSyncEach(acc, ids, sdkOk, env, st, unr, now, update_existing, failing) ==
    IF Len(ids) = 0 THEN acc
    ELSE HardSyncEach(
             HardSyncOne(acc, Head(ids),
                         hard_sync_device_from_firebase(sdkOk, acc.app, env, st, unr,
                                                        acc.db, now, Head(ids),
                                                        update_existing,
                                                        Head(ids) \in failing)),
             Tail(ids), sdkOk, env, st, unr, now, update_existing, failing)

\* all_device_ids as the fleet function computes it from the tables and the store
FleetUniverse(sdkOk, app, env, st, unr, local) ==
    Universe(local, Discover(initialize_firebase(sdkOk, app, env), st, unr))

\* the ways a set of ids can be iterated
RECURSIVE Orders(_)
Orders(S) ==
    IF S = {} THEN {<<>>}
    ELSE UNION {{<<d>> \o o : o \in Orders(S \ {d})} : d \in S}

\* listFails: Device.objects.all() raises; order: all_device_ids as iterated.
\* Returns [db, app, raised, result, runs], raised telling whether an
\* exception left the function.
hard_sync_all_devices_from_firebase(sdkOk, app, env, st, unr, db, now, update_existing, failing, listFails, order) ==
    IF listFails
    THEN [db |-> db, app |-> app,
          raised |-> FleetFailed(NewFleetResult, "Hard sync all devices failed: ").raised,
          result |-> FleetFailed(NewFleetResult, "Hard sync all devices failed: ").result,
          runs |-> <<>>]
    ELSE HardSyncEach([db |-> db,
                       app |-> initialize_firebase(sdkOk, app, env).app,
                       raised |-> FALSE,
                       result |-> [NewFleetResult EXCEPT
                                      !.total_devices_processed = Len(order)],
                       runs |-> <<>>],
                      order, sdkOk, env, st, unr, now, update_existing, failing)

NewSyncAllResult ==
    [total_devices |-> 0,
     devices_synced |-> 0,
     devices_failed |-> 0,
     total_messages_created |-> 0,
     total_messages_skipped |-> 0,
     device_results |-> <<>>,
     errors |-> <<>>]

\* one iteration of the loop; r: what sync_messages_from_firebase did
SyncAllOne(acc, d, r) ==
    [db |-> [acc.db EXCEPT !.messages = r.messages],
     store |-> r.store, app |-> r.app, raised |-> acc.raised,
     result |-> [acc.result EXCEPT
                    !.device_results = Append(@, r.result),
                    !.devices_failed = IF Len(r.result.errors) > 0 THEN @ + 1 ELSE @,
                    !.devices_synced = IF Len(r.result.errors) > 0 THEN @ ELSE @ + 1,
                    !.total_messages_created = @ + r.result.messages_created,
                    !.total_messages_skipped = @ + r.result.messages_skipped]]

\* for device in devices
RECURSIVE SyncAllEach(_, _, _, _, _, _)
SyncAllEach(acc, ids, sdkOk, env, unr, keep_latest) ==
    IF Len(ids) = 0 THEN acc
    ELSE SyncAllEach(
             SyncAllOne(acc, Head(ids),
                        sync_messages_from_firebase(sdkOk, acc.app, env, acc.store, unr,
                                                    acc.db, Head(ids), keep_latest)),
             Tail(ids), sdkOk, env, unr, keep_latest)

\* order: the rows of Device.objects.all() as iterated.
\* Returns [db, store, app, raised, result].
sync_all_devices_from_firebase(sdkOk, app, env, st, unr, db, keep_latest, listFails, order) ==
    IF listFails
    THEN [db |-> db, store |-> st, app |-> app,
          raised |-> FleetFailed(NewSyncAllResult, "Sync all devices failed: ").raised,
          result |-> FleetFailed(NewSyncAllResult, "Sync all devices failed: ").result]
    ELSE SyncAllEach([db |-> db, store |-> st, app |-> app, raised |-> FALSE,
                      result |-> [NewSyncAllResult EXCEPT !.total_devices = Len(order)]],
                     order, sdkOk, env, unr, keep_latest)


----------------------------------------------------------------------------
(* Device endpoints (views.py) *)

\* Device.objects.filter(device_id__in=device_ids).update(**updates)
update_device_sync_fields(devs, device_ids, field_name, status, error_message, now) ==
    [x \in DOMAIN devs |->
        IF x \notin device_ids THEN devs[x]
        ELSE LET a == [devs[x] EXCEPT ![field_name] = Some(now),
                                      !.last_sync_at = Some(now),
                                      !.sync_status = status]
             IN IF error_message # None /\ error_message[1] # ""
                THEN [a EXCEPT !.sync_error_message =
                         Some(Take(error_message[1], ErrorMessageLimit))]
                ELSE a]

\* the errors the device_id resolution loop collects, in batch order
RECURSIVE ResolveErrors(_, _)
ResolveErrors(devs, batch) ==
    IF Len(batch) = 0 THEN <<>>
    ELSE (IF Head(batch).device_id \in DOMAIN devs THEN <<>>
          ELSE <<"Device with device_id \"" \o Head(batch).device_id \o "\" not found">>)
         \o ResolveErrors(devs, Tail(batch))

Resolved(devs, batch) == SelectSeq(batch, LAMBDA it : it.device_id \in DOMAIN devs)

MessageRow(it) ==
    [device |-> it.device_id, timestamp |-> it.timestamp, message_type |-> it.v]

NotificationRow(it) ==
    [device |-> it.device_id, timestamp |-> it.timestamp, package_name |-> it.v]

UploadRow(kind, it) ==
    IF kind = "messages" THEN MessageRow(it) ELSE NotificationRow(it)

\* INSERT without the unique_together constraint
RECURSIVE InsertIgnoreConflicts_NoConstraint(_, _, _)
InsertIgnoreConflicts_NoConstraint(rows, items, kind) ==
    IF Len(items) = 0 THEN rows
    ELSE InsertIgnoreConflicts_NoConstraint(Append(rows, UploadRow(kind, Head(items))),
                                            Tail(items), kind)

\* INSERT ... ON CONFLICT DO NOTHING, row by row
RECURSIVE InsertIgnoreConflicts(_, _, _)
InsertIgnoreConflicts(rows, items, kind) ==
    IF Len(items) = 0 THEN rows
    ELSE LET it == Head(items)
             next == IF Matching(rows, it.device_id, it.timestamp, "timestamp") = {}
                     THEN Append(rows, UploadRow(kind, it)) ELSE rows
         IN InsertIgnoreConflicts(next, Tail(items), kind)

\* the fallback loop: obj.save() one by one, a failing save is passed over
RECURSIVE SaveIndividually(_, _, _)
SaveIndividually(acc, items, kind) ==
    IF Len(items) = 0 THEN acc
    ELSE LET it == Head(items)
             good == it.ok /\ Matching(acc.rows, it.device_id, it.timestamp,
                                       "timestamp") = {}
             next == IF good
                     THEN [rows |-> Append(acc.rows, UploadRow(kind, it)),
                           count |-> acc.count + 1]
                     ELSE acc
         IN SaveIndividually(next, Tail(items), kind)

\* bulk_create(objs, ignore_conflicts=True) with its except-branch fallback;
\* an item that is not ok makes the bulk statement raise before any insert
BulkCreate(rows, items, kind) ==
    IF Len(items) = 0 THEN [rows |-> rows, count |-> 0]
    ELSE IF \A i \in 1..Len(items) : items[i].ok
    THEN [rows |-> InsertIgnoreConflicts(rows, items, kind), count |-> Len(items)]
    ELSE SaveIndividually([rows |-> rows, count |-> 0], items, kind)

\* UploadCreate that reports 'synced' although records were rejected
UploadCreate_IgnoresErrors(rows, devs, batch, kind, now) ==
    LET errors == ResolveErrors(devs, batch)
        b == BulkCreate(rows, Resolved(devs, batch), kind)
        sync_device_ids == {batch[i].device_id : i \in 1..Len(batch)}
        error_message == IF Len(errors) > 0 THEN Some(errors[1]) ELSE None
    IN [rows |-> b.rows,
        devices |-> update_device_sync_fields(devs, sync_device_ids,
                                              kind \o "_last_synced_at",
                                              "synced", error_message, now),
        created_count |-> b.count,
        errors |-> errors]

\* the bulk branch of MessageViewSet.create / NotificationViewSet.create;
\* returns [rows, devices, created_count, errors]
UploadCreate(rows, devs, batch, kind, now) ==
    LET errors == ResolveErrors(devs, batch)
        b == BulkCreate(rows, Resolved(devs, batch), kind)
        sync_device_ids == {batch[i].device_id : i \in 1..Len(batch)}
        sync_status_value == IF b.count # 0 /\ Len(errors) = 0
                             THEN "synced" ELSE "out_of_sync"
        error_message == IF Len(errors) > 0 THEN Some(errors[1]) ELSE None
    IN [rows |-> b.rows,
        devices |-> update_device_sync_fields(devs, sync_device_ids,
                                              kind \o "_last_synced_at",
                                              sync_status_value, error_message, now),
        created_count |-> b.count,
        errors |-> errors]

\* the loop of ContactViewSet.create: device lookup, phone_number check and
\* Contact.objects.update_or_create per item, errors in batch order
RECURSIVE UpsertContacts(_, _, _)
UpsertContacts(acc, devs, items) ==
    IF Len(items) = 0 THEN acc
    ELSE LET it == Head(items)
             hits == Matching(acc.rows, it.device_id, it.phone_number, "phone_number")
             row == [device |-> it.device_id, phone_number |-> it.phone_number,
                     name |-> it.v]
             next ==
                 IF it.device_id \notin DOMAIN devs
                 THEN [acc EXCEPT !.errors =
                          Append(@, "Device with device_id \"" \o it.device_id
                                    \o "\" not found")]
                 ELSE IF it.phone_number = ""
                 THEN [acc EXCEPT !.errors = Append(@, "phone_number is required")]
                 ELSE IF hits = {}
                 THEN [acc EXCEPT !.rows = Append(@, row), !.created = @ + 1]
                 ELSE IF Cardinality(hits) > 1
                 THEN [acc EXCEPT !.errors =
                          Append(@, MultipleObjects("Contact", Cardinality(hits)))]
                 ELSE [acc EXCEPT !.rows = [i \in 1..Len(@) |->
                                               IF i \in hits THEN row ELSE @[i]],
                                  !.updated = @ + 1]
         IN UpsertContacts(next, devs, Tail(items))

\* acc: what the loop left; the status update of ContactViewSet.create
ContactsUpserted(acc, devs, batch, now) ==
    [rows |-> acc.rows,
     devices |-> update_device_sync_fields(
                     devs, {batch[i].device_id : i \in 1..Len(batch)},
                     "contacts_last_synced_at",
                     IF acc.created + acc.updated > 0 /\ Len(acc.errors) = 0
                     THEN "synced" ELSE "out_of_sync",
                     IF Len(acc.errors) > 0 THEN Some(acc.errors[1]) ELSE None,
                     now),
     created_count |-> acc.created + acc.updated,
     errors |-> acc.errors]

\* the bulk branch of ContactViewSet.create
ContactCreate(rows, devs, batch, now) ==
    ContactsUpserted(UpsertContacts(NewAcc(rows, <<>>), devs, batch), devs, batch, now)

\* POST /api/sync/status/ ; status "" and message None stand for absent fields
sync_status(devs, d, sync_status_value, sync_error_message, now) ==
    IF d \notin DOMAIN devs THEN devs
    ELSE LET a == IF sync_status_value # ""
                  THEN [devs[d] EXCEPT !.sync_status = sync_status_value]
                  ELSE devs[d]
             b == IF sync_error_message # None
                  THEN [a EXCEPT !.sync_error_message = sync_error_message]
                  ELSE a
         IN [devs EXCEPT ![d] = [b EXCEPT !.last_sync_at = Some(now)]]

\* DeviceViewSet.reset_device
reset_device(devs, d) ==
    IF d \notin DOMAIN devs THEN devs
    ELSE [devs EXCEPT ![d] = [@ EXCEPT !.sync_status = "never_synced",
                                       !.last_sync_at = None]]

\* the APK branch of DeviceViewSet.create: Device.objects.update_or_create
register_device(devs, d, name) ==
    IF d \in DOMAIN devs
    THEN [devs EXCEPT ![d] = [@ EXCEPT !.name = name]]
    ELSE [x \in DOMAIN devs \cup {d} |->
             IF x = d THEN NewDevice(name, "never_synced") ELSE devs[x]]

\* f with f[d] = v, d added to the domain when it is new
Put(f, d, v) == [x \in DOMAIN f \cup {d} |-> IF x = d THEN v ELSE f[x]]

\* the same update_or_create: defaults['code'] = data.get('code') or ''
register_code(cds, d, code) == Put(cds, d, IF code = None THEN "" ELSE code[1])

\* DeviceViewSet.reset_device, step 2: the card of the device, if it has one
reset_bank_card(crds, d) ==
    IF d \in DOMAIN crds THEN [crds EXCEPT ![d] = "inactive"] ELSE crds

\* DeviceViewSet.activate_device: device.code = request.data['code'] if sent
activate_device(cds, d, code) == IF code = None THEN cds ELSE Put(cds, d, code[1])

\* BankCardCreateSerializer.create: one card per device
create_bank_card(devs, crds, d, status) ==
    IF d \notin DOMAIN devs \/ d \in DOMAIN crds THEN crds ELSE Put(crds, d, status)

\* BankCardUpdateSerializer.update of the status field
update_bank_card(crds, d, status) ==
    IF d \in DOMAIN crds THEN [crds EXCEPT ![d] = status] ELSE crds

\* Device.objects.get(code=code): the rows that match
DevicesWithCode(devs, cds, code) ==
    {d \in DOMAIN devs \cap DOMAIN cds : cds[d] = code}

\* validate_apk_login: [approved, http] of the response
validate_apk_login(devs, cds, crds, code) ==
    LET found == DevicesWithCode(devs, cds, code)
    IN IF code = ""
       THEN [approved |-> FALSE, http |-> 400]
       ELSE IF found = {}
       THEN [approved |-> FALSE, http |-> 200]
       ELSE IF Cardinality(found) > 1
       THEN [approved |-> FALSE, http |-> 500]
       ELSE LET d == CHOOSE x \in found : TRUE
            IN IF d \notin DOMAIN crds
               THEN [approved |-> FALSE, http |-> 200]
               ELSE IF crds[d] # "active"
               THEN [approved |-> FALSE, http |-> 200]
               ELSE [approved |-> TRUE, http |-> 200]


----------------------------------------------------------------------------
(* The store as a tree: a non-empty child makes its parent node non-empty *)

Info(name) == [kind |-> "info", name |-> name]
Dict(entries) == [kind |-> "dict", entries |-> entries]
List(entries) == [kind |-> "list", entries |-> entries]
Entry(k, shape, v) == [k |-> k, shape |-> shape, v |-> v]

ChildrenOf(p) == {p \o "/messages", p \o "/Notification", p \o "/Contact"} \cap AllPaths

InfoPaths == UNION {Range(DeviceInfoPaths(d)) : d \in Devices}

\* reading a node whose own fields are absent still yields its subtrees
Close(st) ==
    [p \in AllPaths |->
        IF p \in InfoPaths /\ st[p] = Absent /\ \E c \in ChildrenOf(p) : Truthy(st[c])
        THEN Info(None) ELSE st[p]]

EmptyStore == [p \in AllPaths |-> Absent]

\* st with the given <<path, value>> pairs written
RECURSIVE WithPaths(_, _)
WithPaths(st, pairs) ==
    IF Len(pairs) = 0 THEN st
    ELSE WithPaths([st EXCEPT ![Head(pairs)[1]] = Head(pairs)[2]], Tail(pairs))

----------------------------------------------------------------------------
(* State, operations *)

NoOp == [op |-> "none"]

\* no request is being handled
Idle == [t \in Threads |-> [pc |-> "idle"]]

\* nothing answered yet
NoTally ==
    [calls |-> 0,
     passed |-> [e \in Emails |-> 0],
     verified |-> [tok \in Tokens |-> 0],
     issued |-> {},
     runs |-> <<>>,
     answer |-> NoOp]

Db == [devices |-> devices, messages |-> messages,
       notifications |-> notifications, contacts |-> contacts]

\* rows per table that belong to device d
RowCount(rows, d) == Cardinality({i \in 1..Len(rows) : rows[i].device = d})

Counts(db, d) ==
    [messages |-> RowCount(db.messages, d),
     notifications |-> RowCount(db.notifications, d),
     contacts |-> RowCount(db.contacts, d)]

Step(op) ==
    /\ clock' = clock + 1
    /\ prev' = last
    /\ last' = op
    /\ UNCHANGED <<syncLogs, command, cache, threads, tally>>

\* an operation that touches neither Device.code nor the BankCard table
Tick(op) ==
    /\ Step(op)
    /\ UNCHANGED <<codes, cards>>

Outcome(errors) == IF Len(errors) = 0 THEN "clean" ELSE "errors"

\* the devices of ds get the tag in the function f
Tagged(f, ds, tag) == [x \in Devices |-> IF x \in ds THEN tag ELSE f[x]]

\* r: what hard_sync_device_from_firebase did and returned
HardSyncReturn(d, update_existing, saveFails, r) ==
    /\ devices' = r.db.devices
    /\ messages' = r.db.messages
    /\ notifications' = r.db.notifications
    /\ contacts' = r.db.contacts
    /\ fbApp' = r.app
    /\ Tick([op |-> "hard_sync", d |-> d, update_existing |-> update_existing,
             saveFails |-> saveFails, now |-> clock, result |-> r.result,
             exc |-> r.exc, had_row |-> d \in DOMAIN devices, log |-> r.log,
             before |-> Db, store |-> store, unreachable |-> unreachable])
    /\ lastRun' = Tagged(lastRun, {d}, Outcome(r.result.errors))
    /\ statusBy' = IF r.assigned
                    THEN Tagged(statusBy, {d}, "hard_sync_" \o Outcome(r.result.errors))
                    ELSE statusBy

HardSync(d, update_existing, saveFails) ==
    /\ clock <= MaxOps
    /\ HardSyncReturn(d, update_existing, saveFails,
                      hard_sync_device_from_firebase(sdk, fbApp, fbEnv, store,
                                                     unreachable, Db, clock, d,
                                                     update_existing, saveFails))
    /\ UNCHANGED <<sdk, fbEnv, store, unreachable>>

\* r: what sync_messages_from_firebase did and returned
SyncMessagesReturn(d, keep_latest, r) ==
    /\ messages' = r.messages
    /\ store' = r.store
    /\ fbApp' = r.app
    /\ Tick([op |-> "sync_messages", d |-> d, keep_latest |-> keep_latest,
             now |-> clock, result |-> r.result, before |-> Db,
             store |-> store, unreachable |-> unreachable])
    /\ lastRun' = Tagged(lastRun, {d}, Outcome(r.result.errors))

SyncMessages(d, keep_latest) ==
    /\ clock <= MaxOps
    /\ SyncMessagesReturn(d, keep_latest,
                          sync_messages_from_firebase(sdk, fbApp, fbEnv, store,
                                                      unreachable, Db, d, keep_latest))
    /\ UNCHANGED <<sdk, fbEnv, unreachable, devices, notifications, contacts, statusBy>>

PostMessages(batch) ==
    /\ clock <= MaxOps
    /\ LET r == UploadCreate(messages, devices, batch, "messages", clock)
       IN /\ messages' = r.rows
          /\ devices' = r.devices
          /\ Tick([op |-> "post_messages", batch |-> batch, now |-> clock,
                   created_count |-> r.created_count, errors |-> r.errors,
                   before |-> Db])
          /\ statusBy' = Tagged(statusBy,
                                {batch[i].device_id : i \in 1..Len(batch)}
                                    \cap DOMAIN devices,
                                IF r.created_count # 0 /\ Len(r.errors) = 0
                                THEN "upload_clean" ELSE "upload_errors")
    /\ UNCHANGED <<sdk, fbApp, fbEnv, store, unreachable, notifications, contacts,
                   lastRun>>

PostNotifications(batch) ==
    /\ clock <= MaxOps
    /\ LET r == UploadCreate(notifications, devices, batch, "notifications", clock)
       IN /\ notifications' = r.rows
          /\ devices' = r.devices
          /\ Tick([op |-> "post_notifications", batch |-> batch, now |-> clock,
                   created_count |-> r.created_count, errors |-> r.errors,
                   before |-> Db])
          /\ statusBy' = Tagged(statusBy,
                                {batch[i].device_id : i \in 1..Len(batch)}
                                    \cap DOMAIN devices,
                                IF r.created_count # 0 /\ Len(r.errors) = 0
                                THEN "upload_clean" ELSE "upload_errors")
    /\ UNCHANGED <<sdk, fbApp, fbEnv, store, unreachable, messages, contacts,
                   lastRun>>

PostContacts(batch) ==
    /\ clock <= MaxOps
    /\ LET r == ContactCreate(contacts, devices, batch, clock)
       IN /\ contacts' = r.rows
          /\ devices' = r.devices
          /\ Tick([op |-> "post_contacts", batch |-> batch, now |-> clock,
                   created_count |-> r.created_count, errors |-> r.errors,
                   before |-> Db])
          /\ statusBy' = Tagged(statusBy,
                                {batch[i].device_id : i \in 1..Len(batch)}
                                    \cap DOMAIN devices,
                                IF r.created_count # 0 /\ Len(r.errors) = 0
                                THEN "upload_clean" ELSE "upload_errors")
    /\ UNCHANGED <<sdk, fbApp, fbEnv, store, unreachable, messages, notifications,
                   lastRun>>

PostSyncStatus(d, sync_status_value, sync_error_message) ==
    /\ clock <= MaxOps
    /\ devices' = sync_status(devices, d, sync_status_value, sync_error_message, clock)
    /\ Tick([op |-> "post_status", d |-> d, sync_status |-> sync_status_value,
             sync_error_message |-> sync_error_message, now |-> clock,
             before |-> Db])
    /\ statusBy' = IF d \in DOMAIN devices /\ sync_status_value # ""
                    THEN Tagged(statusBy, {d},
                                IF sync_status_value = "synced"
                                THEN "post_synced" ELSE "post_other")
                    ELSE statusBy
    /\ UNCHANGED <<sdk, fbApp, fbEnv, store, unreachable, messages, notifications,
                   contacts, lastRun>>

ResetDevice(d) ==
    /\ clock <= MaxOps
    /\ d \in DOMAIN devices
    /\ devices' = reset_device(devices, d)
    /\ cards' = reset_bank_card(cards, d)
    /\ UNCHANGED codes
    /\ Step([op |-> "reset", d |-> d, now |-> clock, before |-> Db])
    /\ statusBy' = Tagged(statusBy, {d}, "reset")
    /\ UNCHANGED <<sdk, fbApp, fbEnv, store, unreachable, messages, notifications,
                   contacts, lastRun>>

RegisterDevice(d, name) ==
    /\ clock <= MaxOps
    /\ devices' = register_device(devices, d, name)
    /\ codes' = register_code(codes, d, None)
    /\ UNCHANGED cards
    /\ Step([op |-> "register", d |-> d, now |-> clock, before |-> Db])
    /\ statusBy' = IF d \in DOMAIN devices THEN statusBy
                    ELSE Tagged(statusBy, {d}, "register")
    /\ UNCHANGED <<sdk, fbApp, fbEnv, store, unreachable, messages, notifications,
                   contacts, lastRun>>

\* what each device of a fleet run ended with
FleetOutcomes(f, ds, results, tagPrefix) ==
    [x \in Devices |->
        IF \E i \in 1..Len(ds) : ds[i] = x
        THEN tagPrefix \o Outcome(results[CHOOSE i \in 1..Len(ds) : ds[i] = x].errors)
        ELSE f[x]]

\* r: what hard_sync_all_devices_from_firebase did and returned
HardSyncAllReturn(update_existing, failing, listFails, order, r) ==
    /\ devices' = r.db.devices
    /\ messages' = r.db.messages
    /\ notifications' = r.db.notifications
    /\ contacts' = r.db.contacts
    /\ fbApp' = r.app
    /\ Tick([op |-> "hard_sync_all", update_existing |-> update_existing,
             failing |-> failing, listFails |-> listFails, order |-> order,
             now |-> clock, raised |-> r.raised, result |-> r.result, runs |-> r.runs,
             before |-> Db, store |-> store, unreachable |-> unreachable,
             sdk |-> sdk, app |-> fbApp, env |-> fbEnv])
    /\ lastRun' = FleetOutcomes(lastRun, [i \in 1..Len(r.runs) |-> r.runs[i].d],
                                r.result.device_results, "")
    /\ statusBy' = FleetOutcomes(statusBy,
                                 SelectSeq([i \in 1..Len(r.runs) |-> r.runs[i].d],
                                           LAMBDA x : \E i \in 1..Len(r.runs) :
                                               r.runs[i].d = x /\ r.runs[i].assigned),
                                 SelectSeq(r.result.device_results,
                                           LAMBDA dr : \E i \in 1..Len(r.runs) :
                                               r.runs[i].d = dr.device_id
                                               /\ r.runs[i].assigned),
                                 "hard_sync_")

HardSyncAllOrdered(update_existing, failing, listFails, order) ==
    HardSyncAllReturn(update_existing, failing, listFails, order,
                      hard_sync_all_devices_from_firebase(sdk, fbApp, fbEnv, store,
                                                          unreachable, Db, clock,
                                                          update_existing, failing,
                                                          listFails, order))

HardSyncAll(update_existing, failing, listFails) ==
    /\ clock <= MaxFleetOps
    /\ \E order \in Orders(IF listFails THEN {}
                            ELSE FleetUniverse(sdk, fbApp, fbEnv, store, unreachable,
                                               DOMAIN devices)) :
          HardSyncAllOrdered(update_existing, failing, listFails, order)
    /\ UNCHANGED <<sdk, fbEnv, store, unreachable>>

\* r: what sync_all_devices_from_firebase did and returned
SyncAllReturn(keep_latest, listFails, order, r) ==
    /\ messages' = r.db.messages
    /\ store' = r.store
    /\ fbApp' = r.app
    /\ Tick([op |-> "sync_all", keep_latest |-> keep_latest, listFails |-> listFails,
             order |-> order, now |-> clock, raised |-> r.raised, result |-> r.result,
             before |-> Db, store |-> store, unreachable |-> unreachable,
             sdk |-> sdk, app |-> fbApp, env |-> fbEnv])
    /\ lastRun' = FleetOutcomes(lastRun, order, r.result.device_results, "")

SyncAll(keep_latest, listFails) ==
    /\ clock <= MaxFleetOps
    /\ \E order \in Orders(IF listFails THEN {} ELSE DOMAIN devices) :
          SyncAllReturn(keep_latest, listFails, order,
                        sync_all_devices_from_firebase(sdk, fbApp, fbEnv, store,
                                                       unreachable, Db, keep_latest,
                                                       listFails, order))
    /\ UNCHANGED <<sdk, fbEnv, unreachable, devices, notifications, contacts, statusBy>>

\* the device (APK) or the network changes what the store serves
StoreChange(st, unr) ==
    /\ clock <= MaxOps
    /\ <<st, unr>> # <<store, unreachable>>
    /\ store' = st
    /\ unreachable' = unr
    /\ Tick([op |-> "store_change", now |-> clock, before |-> Db])
    /\ UNCHANGED <<sdk, fbApp, fbEnv, devices, messages, notifications, contacts,
                   lastRun, statusBy>>


\* f: what the fetcher returned or raised
FetchReturn(kind, d, limit, f) ==
    /\ fbApp' = f.app
    /\ Tick([op |-> "fetch", kind |-> kind, d |-> d, limit |-> limit, now |-> clock,
             out |-> f, app |-> fbApp])
    /\ UNCHANGED <<sdk, fbEnv, store, unreachable, devices, messages, notifications,
                   contacts, lastRun, statusBy>>

FetchDeviceInfo(d) ==
    /\ clock <= MaxFetches
    /\ FetchReturn("info", d, 0,
                   get_firebase_device_info(sdk, fbApp, fbEnv, store, unreachable, d))

FetchMessages(d, limit) ==
    /\ clock <= MaxFetches
    /\ FetchReturn("messages", d, limit,
                   get_firebase_messages_for_device(sdk, fbApp, fbEnv, store,
                                                    unreachable, d, limit))

FetchNotifications(d) ==
    /\ clock <= MaxFetches
    /\ FetchReturn("notifications", d, 0,
                   get_firebase_notifications_for_device(sdk, fbApp, fbEnv, store,
                                                         unreachable, d))

FetchContacts(d) ==
    /\ clock <= MaxFetches
    /\ FetchReturn("contacts", d, 0,
                   get_firebase_contacts_for_device(sdk, fbApp, fbEnv, store,
                                                    unreachable, d))


----------------------------------------------------------------------------
(* The system: every sync and upload operation over a small fleet *)

\* what the store may hold for D1 (D2 has no remote data)
StoreClean ==
    Close(WithPaths(EmptyStore,
        << <<"device/D1", Info(Some("Pixel"))>>,
           <<"fastpay/D1/messages", Dict(<<Entry("100", "dict", "sent")>>)>>,
           <<"device/D1/Notification", Dict(<<Entry("100", "dict", "com.bank")>>)>>,
           <<"device/D1/Contact", Dict(<<Entry("+1", "dict", "Al")>>)>> >>))

StoreBadKey ==
    Close(WithPaths(EmptyStore,
        << <<"device/D1", Info(Some("Pixel"))>>,
           <<"fastpay/D1/messages",
             Dict(<<Entry("abc", "dict", "sent"), Entry("200", "str", "junk")>>)>> >>))

StoreArray ==
    Close(WithPaths(EmptyStore,
        << <<"device/D1", Info(None)>>,
           <<"message/D1", Dict(<<Entry("100", "dict", "received")>>)>>,
           <<"notification/D1", List(<<Entry("0", "dict", "com.bank")>>)>> >>))

Stores == {EmptyStore, StoreClean, StoreBadKey, StoreArray}

Outages == {{}, InfoPaths}

Item(d, ok) == [device_id |-> d, timestamp |-> 100, v |-> "received", ok |-> ok]
PackageItem(d, ok) == [device_id |-> d, timestamp |-> 100, v |-> "com.bank", ok |-> ok]
ContactItem(d, phone) == [device_id |-> d, phone_number |-> phone, v |-> "Al"]

\* request bodies of POST /api/messages/ and /api/notifications/
MessageBatches ==
    { <<Item("D1", TRUE)>>,
      <<Item("D1", TRUE), Item("D2", TRUE)>>,
      <<Item("D1", FALSE), Item("D1", TRUE), Item("D1", TRUE)>> }

NotificationBatches ==
    { <<PackageItem("D1", TRUE), PackageItem("D1", TRUE)>>,
      <<PackageItem("D2", TRUE)>> }

ContactBatches ==
    { <<ContactItem("D1", "+1")>>,
      <<ContactItem("D1", "+1"), ContactItem("D1", "")>> }

\* <<device, update_existing, the status write fails>>
HardSyncCalls ==
    { <<"D1", TRUE, FALSE>>, <<"D1", FALSE, FALSE>>,
      <<"D1", TRUE, TRUE>>, <<"D2", TRUE, FALSE>> }

StatusPosts ==
    { <<"D1", "synced", None>>, <<"D1", "", Some("low disk")>>,
      <<"D1", "done", None>> }

StoreChanges ==
    {<<st, {}>> : st \in Stores} \cup {<<StoreClean, InfoPaths>>}

Init ==
    /\ sdk \in BOOLEAN
    /\ fbApp = FALSE
    /\ fbEnv = [url |-> TRUE, creds |-> TRUE]
    /\ store \in Stores
    /\ unreachable = {}
    /\ devices \in {<<>>, [x \in {"D1"} |-> NewDevice(None, "never_synced")]}
    /\ messages = <<>>
    /\ notifications = <<>>
    /\ contacts = <<>>
    /\ clock = 1
    /\ last = NoOp
    /\ prev = NoOp
    /\ lastRun = [x \in Devices |-> "none"]
    /\ statusBy = [x \in Devices |-> IF x \in DOMAIN devices THEN "register" ELSE "none"]
    /\ codes = <<>>
    /\ cards = <<>>
    /\ syncLogs = <<>>
    /\ command = None
    /\ cache = <<>>
    /\ threads = Idle
    /\ tally = NoTally

Next ==
    \/ \E c \in HardSyncCalls : HardSync(c[1], c[2], c[3])
    \/ SyncMessages("D1", 1)
    \/ \E b \in MessageBatches : PostMessages(b)
    \/ \E b \in NotificationBatches : PostNotifications(b)
    \/ \E b \in ContactBatches : PostContacts(b)
    \/ \E c \in StatusPosts : PostSyncStatus(c[1], c[2], c[3])
    \/ ResetDevice("D1")
    \/ RegisterDevice("D1", Some("Pixel"))
    \/ \E c \in StoreChanges : StoreChange(c[1], c[2])

Spec == Init /\ [][Next]_vars

TypeOK ==
    /\ sdk \in BOOLEAN
    /\ fbApp \in BOOLEAN
    /\ DOMAIN devices \subseteq Devices
    /\ clock \in 1..(MaxOps + 1)


----------------------------------------------------------------------------
(* Hard syncs of D1 over stores with malformed, unrecognised and colliding   *)
(* records, with and without rows from an earlier upload                     *)

StoreTwo ==
    Close(WithPaths(EmptyStore,
        << <<"device/D1", Info(Some("Pixel"))>>,
           <<"fastpay/D1/messages",
             Dict(<<Entry("100", "dict", "sent"), Entry("200", "str", "Hi")>>)>>,
           <<"device/D1/Notification",
             Dict(<<Entry("100", "dict", "com.bank"), Entry("300", "dict", "")>>)>>,
           <<"device/D1/Contact",
             Dict(<<Entry("+1", "dict", "Al"), Entry("+2", "str", "Bo")>>)>> >>))

StoreOneBad ==
    Close(WithPaths(EmptyStore,
        << <<"device/D1", Info(Some("Pixel"))>>,
           <<"fastpay/D1/messages",
             Dict(<<Entry("100", "dict", "sent"), Entry("abc", "dict", "sent"),
                    Entry("200", "dict", "received")>>)>> >>))

StoreSevenBad ==
    Close(WithPaths(EmptyStore,
        << <<"device/D1", Info(Some("Pixel"))>>,
           <<"fastpay/D1/messages",
             Dict(<<Entry("a", "dict", "sent"), Entry("b", "dict", "sent"),
                    Entry("c", "dict", "sent"), Entry("d", "dict", "sent"),
                    Entry("e", "dict", "sent"), Entry("f", "dict", "sent"),
                    Entry("g", "dict", "sent")>>)>> >>))

StoreOther ==
    Close(WithPaths(EmptyStore,
        << <<"device/D1", Info(None)>>,
           <<"fastpay/D1/messages", Dict(<<Entry("100", "other", "")>>)>>,
           <<"device/D1/Contact", List(<<Entry("0", "dict", "Al")>>)>> >>))

StoreColliding ==
    Close(WithPaths(EmptyStore,
        << <<"device/D1", Info(Some("Pixel"))>>,
           <<"fastpay/D1/messages",
             Dict(<<Entry("100", "dict", "sent"), Entry("0100", "dict", "sent")>>)>> >>))

\* every kind with a value that is neither a mapping nor a string
StoreShapes ==
    Close(WithPaths(EmptyStore,
        << <<"device/D1", Info(Some("Pixel"))>>,
           <<"fastpay/D1/messages",
             Dict(<<Entry("100", "dict", "sent"), Entry("300", "other", ""),
                    Entry("abc", "other", "")>>)>>,
           <<"device/D1/Notification",
             Dict(<<Entry("400", "other", ""), Entry("500", "dict", "com.bank")>>)>>,
           <<"device/D1/Contact",
             Dict(<<Entry("+1", "dict", "Al"), Entry("+3", "other", "")>>)>> >>))

SyncStores ==
    {StoreClean, StoreTwo, StoreOneBad, StoreSevenBad, StoreOther, StoreColliding,
     StoreShapes}

Registered == [x \in {"D1"} |-> NewDevice(None, "never_synced")]

\* D1 after POST /api/messages/ at time 0 with one message
Uploaded == UploadCreate(<<>>, Registered, <<Item("D1", TRUE)>>, "messages", 0)

\* <<Device rows, Message rows>> left by registration and an earlier upload
SyncTables ==
    { << <<>>, <<>> >>,
      << Registered, <<>> >>,
      << Uploaded.devices, Uploaded.rows >> }

SyncCalls ==
    { <<"D1", TRUE, FALSE>>, <<"D1", FALSE, FALSE>>, <<"D1", FALSE, TRUE>> }

InitSync ==
    /\ sdk = TRUE
    /\ fbApp = FALSE
    /\ fbEnv = [url |-> TRUE, creds |-> TRUE]
    /\ store \in SyncStores
    /\ unreachable = {}
    /\ \E t \in SyncTables :
          /\ devices = t[1]
          /\ messages = t[2]
    /\ notifications = <<>>
    /\ contacts = <<>>
    /\ clock = 1
    /\ last = NoOp
    /\ prev = NoOp
    /\ lastRun = [x \in Devices |-> "none"]
    /\ statusBy = [x \in Devices |->
                      IF x \in DOMAIN devices
                      THEN (IF Len(messages) > 0 THEN "upload_clean" ELSE "register")
                      ELSE "none"]
    /\ codes = <<>>
    /\ cards = <<>>
    /\ syncLogs = <<>>
    /\ command = None
    /\ cache = <<>>
    /\ threads = Idle
    /\ tally = NoTally

NextSync ==
    \/ \E c \in SyncCalls : HardSync(c[1], c[2], c[3])
    \/ \E st \in SyncStores : StoreChange(st, {})

SpecSync == InitSync /\ [][NextSync]_vars


----------------------------------------------------------------------------
(* The fetchers alone, over every arrangement of D1's candidate paths *)

\* what one candidate path holds
Contents == {"none", "dict", "list"}

\* the value at the i-th candidate path of a kind; it names its own path
Sample(kind, i, c) ==
    IF c = "none" THEN Absent
    ELSE IF kind = "info" THEN Info(Some("name" \o ToString(i) \o c))
    ELSE IF c = "dict"
    THEN Dict(<<Entry(ToString(i), "dict", "sent"),
                Entry(ToString(10 + i), "dict", "received")>>)
    ELSE List(<<Entry("0", "dict", ToString(i))>>)

\* every kind's i-th candidate path of D1 holds what pat[i] says
PatternStore(pat) ==
    Close([p \in AllPaths |->
              IF \E k \in Kinds : \E i \in 1..Len(PathsOf(k, "D1")) :
                     PathsOf(k, "D1")[i] = p
              THEN LET k == CHOOSE k \in Kinds : p \in Range(PathsOf(k, "D1"))
                       i == CHOOSE i \in 1..Len(PathsOf(k, "D1")) :
                                PathsOf(k, "D1")[i] = p
                   IN Sample(k, i, pat[i])
              ELSE Absent])

\* the reads that fail: none, every first candidate path, or all of them
FetchOutages ==
    { {},
      {PathsOf(k, "D1")[1] : k \in Kinds},
      UNION {Range(PathsOf(k, "D1")) : k \in Kinds} }

\* <<FIREBASE_AVAILABLE, app initialised, environment>>
Deployments ==
    { <<FALSE, FALSE, [url |-> TRUE, creds |-> TRUE]>>,
      <<TRUE, FALSE, [url |-> TRUE, creds |-> TRUE]>>,
      <<TRUE, FALSE, [url |-> FALSE, creds |-> TRUE]>>,
      <<TRUE, FALSE, [url |-> TRUE, creds |-> FALSE]>>,
      <<TRUE, TRUE, [url |-> TRUE, creds |-> TRUE]>> }

InitFetch ==
    /\ \E dep \in Deployments :
          /\ sdk = dep[1]
          /\ fbApp = dep[2]
          /\ fbEnv = dep[3]
    /\ \E pat \in [1..Len(ContactPaths("D1")) -> Contents] : store = PatternStore(pat)
    /\ unreachable \in FetchOutages
    /\ devices = <<>>
    /\ messages = <<>>
    /\ notifications = <<>>
    /\ contacts = <<>>
    /\ clock = 1
    /\ last = NoOp
    /\ prev = NoOp
    /\ lastRun = [x \in Devices |-> "none"]
    /\ statusBy = [x \in Devices |-> "none"]
    /\ codes = <<>>
    /\ cards = <<>>
    /\ syncLogs = <<>>
    /\ command = None
    /\ cache = <<>>
    /\ threads = Idle
    /\ tally = NoTally

NextFetch ==
    \/ FetchDeviceInfo("D1")
    \/ \E limit \in {0, 1} : FetchMessages("D1", limit)
    \/ FetchNotifications("D1")
    \/ FetchContacts("D1")

SpecFetch == InitFetch /\ [][NextFetch]_vars


----------------------------------------------------------------------------
(* Fleet runs over two devices, known locally, remotely, both or neither *)

\* both devices under device/, both clean
FleetClean ==
    Close(WithPaths(EmptyStore,
        << <<"device/D1", Info(Some("Pixel"))>>,
           <<"fastpay/D1/messages", Dict(<<Entry("100", "dict", "sent")>>)>>,
           <<"device/D2", Info(Some("Nokia"))>>,
           <<"device/D2/Contact", Dict(<<Entry("+2", "dict", "Bo")>>)>> >>))

\* D1 clean; D2 only under fastpay/, its notifications a JSON array
FleetMixed ==
    Close(WithPaths(EmptyStore,
        << <<"device/D1", Info(Some("Pixel"))>>,
           <<"fastpay/D1/messages", Dict(<<Entry("100", "dict", "sent")>>)>>,
           <<"device/D1/Notification", Dict(<<Entry("100", "dict", "com.bank")>>)>>,
           <<"fastpay/D2/messages", Dict(<<Entry("100", "dict", "received")>>)>>,
           <<"fastpay/D2/Notification", List(<<Entry("0", "dict", "com.bank")>>)>> >>))

\* D1 with a malformed key; D2 clean
FleetBadKey ==
    Close(WithPaths(EmptyStore,
        << <<"device/D1", Info(Some("Pixel"))>>,
           <<"fastpay/D1/messages",
             Dict(<<Entry("abc", "dict", "sent"), Entry("200", "dict", "sent")>>)>>,
           <<"device/D2", Info(Some("Nokia"))>> >>))

\* D2 a bare legacy node; D1 only under fastpay/testing/
FleetLegacy ==
    Close(WithPaths(EmptyStore,
        << <<"fastpay/D2", Info(Some("Old"))>>,
           <<"fastpay/testing/D1/messages",
             Dict(<<Entry("100", "dict", "sent"), Entry("200", "dict", "sent"),
                    Entry("300", "dict", "received")>>)>> >>))

FleetStores == {EmptyStore, FleetClean, FleetMixed, FleetBadKey, FleetLegacy}

\* the reads of a whole collection that fail
FleetOutages == {{}, {DeviceRoot}, {FastpayRoot}}

FleetTables ==
    { <<>>,
      [x \in {"D1"} |-> NewDevice(None, "never_synced")],
      [x \in {"D1", "D2"} |-> NewDevice(None, "never_synced")] }

\* <<update_existing, the devices whose status write fails, the listing fails>>
FleetCalls ==
    { <<TRUE, {}, FALSE>>, <<FALSE, {}, FALSE>>,
      <<TRUE, {"D1"}, FALSE>>, <<TRUE, {}, TRUE>> }

InitFleet ==
    /\ \E dep \in Deployments :
          /\ sdk = dep[1]
          /\ fbApp = dep[2]
          /\ fbEnv = dep[3]
    /\ store \in FleetStores
    /\ unreachable \in FleetOutages
    /\ devices \in FleetTables
    /\ messages = <<>>
    /\ notifications = <<>>
    /\ contacts = <<>>
    /\ clock = 1
    /\ last = NoOp
    /\ prev = NoOp
    /\ lastRun = [x \in Devices |-> "none"]
    /\ statusBy = [x \in Devices |-> IF x \in DOMAIN devices THEN "register" ELSE "none"]
    /\ codes = <<>>
    /\ cards = <<>>
    /\ syncLogs = <<>>
    /\ command = None
    /\ cache = <<>>
    /\ threads = Idle
    /\ tally = NoTally

NextFleet ==
    \/ \E c \in FleetCalls : HardSyncAll(c[1], c[2], c[3])
    \/ \E listFails \in BOOLEAN : SyncAll(1, listFails)
    \/ \E d \in Devices : SyncMessages(d, 1)

SpecFleet == InitFleet /\ [][NextFleet]_vars


----------------------------------------------------------------------------
(* Claims *)

HardSyncReturned == last.op = "hard_sync"

\* C1: whenever hard_sync_device_from_firebase returns with an empty errors
\* list, the device's row is 'synced' with no error message, and last_sync_at
\* and last_hard_sync_at carry the time of that run.
C1_CleanRunMarksSynced ==
    (HardSyncReturned /\ Len(last.result.errors) = 0) =>
        /\ last.d \in DOMAIN devices
        /\ devices[last.d].sync_status = "synced"
        /\ devices[last.d].sync_error_message = None
        /\ devices[last.d].last_sync_at = Some(last.now)
        /\ devices[last.d].last_hard_sync_at = Some(last.now)

\* a clean run over a row that an earlier run had marked failed
C1_Witness ==
    /\ HardSyncReturned
    /\ Len(last.result.errors) = 0
    /\ last.had_row
    /\ last.before.devices[last.d].sync_status = "sync_failed"
    /\ devices[last.d].sync_status = "synced"

\* C2: whenever hard_sync_device_from_firebase returns with a non-empty errors
\* list for a device that has a local row, that row is 'sync_failed' with a
\* non-empty sync_error_message, whatever the source of the error.
C2_ErrorsMarkFailed ==
    (HardSyncReturned /\ Len(last.result.errors) > 0 /\ last.d \in DOMAIN devices) =>
        /\ devices[last.d].sync_status = "sync_failed"
        /\ devices[last.d].sync_error_message # None
        /\ devices[last.d].sync_error_message # Some("")

C4_ErrorMessageBounded ==
    (HardSyncReturned /\ last.d \in DOMAIN devices
        /\ statusBy[last.d] = "hard_sync_errors"
        /\ devices[last.d].sync_error_message # None) =>
        Len(devices[last.d].sync_error_message[1]) <= ErrorMessageLimit

NaturalKeyUnique(rows, field) ==
    \A i, j \in 1..Len(rows) :
        (rows[i].device = rows[j].device /\ rows[i][field] = rows[j][field]) => i = j

\* C5: after any sequence of sync and upload operations at most one Message
\* and one Notification row exists per (device, timestamp) and at most one
\* Contact row per (device, phone_number).
C5_NaturalKeysUnique ==
    /\ NaturalKeyUnique(messages, "timestamp")
    /\ NaturalKeyUnique(notifications, "timestamp")
    /\ NaturalKeyUnique(contacts, "phone_number")

\* an upload or a sync re-ingested a key that already had a row
C5_Witness ==
    \/ /\ last.op = "post_messages"
       /\ \E i \in 1..Len(last.batch) :
             /\ last.batch[i].ok
             /\ Matching(last.before.messages, last.batch[i].device_id,
                         last.batch[i].timestamp, "timestamp") # {}
       /\ messages = last.before.messages
    \/ /\ last.op = "hard_sync"
       /\ last.result.messages_skipped + last.result.messages_updated > 0
       /\ Len(messages) = Len(last.before.messages)
       /\ Len(messages) > 0

----------------------------------------------------------------------------
(* Claims about the reconciliation of one run's fetched records *)

SyncKinds == {"messages", "notifications", "contacts"}

\* what the run's fetcher for kind k returned
Fetched(run, k) == FirstNonEmpty(run.store, run.unreachable, PathsOf(k, run.d), 1)

\* the run went through all three loops and the status write-back
Completed(run) ==
    /\ run.op = "hard_sync"
    /\ run.exc = None
    /\ Truthy(Fetched(run, "info"))

\* processing the record raises
Raises(k, e) == k # "contacts" /\ int(e.k).raised

\* the record is neither a mapping nor a string: counted as skipped
Unrecognised(k, e) == k # "contacts" /\ ~int(e.k).raised /\ e.shape \notin {"dict", "str"}

\* the record reaches the upsert
WellFormed(k, e) ==
    /\ ~Raises(k, e)
    /\ ~Unrecognised(k, e)
    /\ k = "notifications" => e.v # ""

KeyField(k) == IF k = "contacts" THEN "phone_number" ELSE "timestamp"

NaturalKey(k, e) == IF k = "contacts" THEN e.k ELSE int(e.k).value

\* the row the record describes
RecordRow(k, d, e) ==
    CASE k = "messages" ->
            [device |-> d, timestamp |-> NaturalKey(k, e),
             message_type |-> NormalizeType(e.v)]
      [] k = "notifications" ->
            [device |-> d, timestamp |-> NaturalKey(k, e), package_name |-> e.v]
      [] k = "contacts" ->
            [device |-> d, phone_number |-> e.k,
             name |-> IF e.shape = "dict" THEN e.v ELSE ""]

\* positions of the fetched records of kind k with the given property
WellFormedAt(run, k) ==
    {i \in 1..Len(Fetched(run, k).entries) : WellFormed(k, Fetched(run, k).entries[i])}

RaisingAt(run, k) ==
    {i \in 1..Len(Fetched(run, k).entries) : Raises(k, Fetched(run, k).entries[i])}

UnrecognisedAt(run, k) ==
    {i \in 1..Len(Fetched(run, k).entries) : Unrecognised(k, Fetched(run, k).entries[i])}

\* rows of table rows that carry the natural key of the i-th record
RowsOf(rows, run, k, i) ==
    Matching(rows, run.d, NaturalKey(k, Fetched(run, k).entries[i]), KeyField(k))

\* the well-formed records that had a row before the run
HadRow(run, k) == {i \in WellFormedAt(run, k) : RowsOf(run.before[k], run, k, i) # {}}

\* no two well-formed records of the kind share a natural key
DistinctKeys(run, k) ==
    \A i, j \in WellFormedAt(run, k) :
        NaturalKey(k, Fetched(run, k).entries[i])
            = NaturalKey(k, Fetched(run, k).entries[j]) => i = j

\* two hard syncs of one device in a row, the store unchanged between them
SameDataTwice ==
    /\ prev.op = "hard_sync"
    /\ last.op = "hard_sync"
    /\ prev.d = last.d
    /\ prev.store = last.store
    /\ prev.unreachable = last.unreachable

\* C6 as claimed: of two hard syncs with update_existing=False over unchanged
\* external data the second adds no Message, Notification or Contact row and
\* its skipped count equals the first run's created count, for each kind.
C6_SecondRunSkipsCreated ==
    (SameDataTwice /\ ~prev.update_existing /\ ~last.update_existing) =>
        \A k \in SyncKinds :
            /\ Len(Db[k]) = Len(last.before[k])
            /\ last.result[k \o "_skipped"] = prev.result[k \o "_created"]

\* C6 amended: the second run adds no row and changes none, and its skipped
\* count equals the first run's created count plus the first run's skipped
\* count, for each kind.
C6_SecondRunSkipsAll ==
    (SameDataTwice /\ ~prev.update_existing /\ ~last.update_existing) =>
        \A k \in SyncKinds :
            /\ Db[k] = last.before[k]
            /\ last.result[k \o "_created"] = 0
            /\ last.result[k \o "_updated"] = 0
            /\ last.result[k \o "_skipped"] =
                   prev.result[k \o "_created"] + prev.result[k \o "_skipped"]

\* the first run created one message and skipped another, the second skips both
C6_Witness ==
    /\ SameDataTwice
    /\ ~prev.update_existing
    /\ ~last.update_existing
    /\ prev.result.messages_created = 1
    /\ prev.result.messages_skipped = 1
    /\ last.result.messages_skipped = 2
    /\ prev.result.contacts_created = 2
    /\ last.result.contacts_skipped = 2

\* the per-record trichotomy, summed over the records of one kind of one run
Trichotomy(run, after, k) ==
    /\ run.result[k \o "_created"] =
           Cardinality(WellFormedAt(run, k) \ HadRow(run, k))
    /\ run.result[k \o "_updated"] =
           IF run.update_existing THEN Cardinality(HadRow(run, k)) ELSE 0
    /\ run.result[k \o "_skipped"] =
           (IF run.update_existing THEN 0 ELSE Cardinality(HadRow(run, k)))
               + Cardinality(UnrecognisedAt(run, k))
    /\ \A i \in WellFormedAt(run, k) :
           /\ Cardinality(RowsOf(after, run, k, i)) = 1
           /\ \A j \in RowsOf(after, run, k, i) :
                  IF i \in HadRow(run, k) /\ ~run.update_existing
                  THEN j \in RowsOf(run.before[k], run, k, i)
                       /\ after[j] = run.before[k][j]
                  ELSE after[j] = RecordRow(k, run.d, Fetched(run, k).entries[i])
    /\ Len(after) = Len(run.before[k])
                       + Cardinality(WellFormedAt(run, k) \ HadRow(run, k))

\* every fetched record of the kind is well-formed and has no row yet
AllNew(run, k) ==
    /\ DistinctKeys(run, k)
    /\ WellFormedAt(run, k) = 1..Len(Fetched(run, k).entries)
    /\ HadRow(run, k) = {}

\* C7: each fetched well-formed record is created when its natural key has no
\* row, overwritten and counted updated when it has one and update_existing
\* is true, left unchanged and counted skipped when it has one and
\* update_existing is false; so a first run over n new records has
\* created = fetched = n and skipped = 0, and a second run with
\* update_existing=True has updated = n and created = 0.
C7_UpsertTrichotomy ==
    /\ Completed(last) =>
           \A k \in SyncKinds : DistinctKeys(last, k) => Trichotomy(last, Db[k], k)
    /\ (SameDataTwice /\ Completed(prev) /\ last.update_existing) =>
           \A k \in SyncKinds :
               AllNew(prev, k) =>
                   /\ prev.result[k \o "_created"] = prev.result[k \o "_fetched"]
                   /\ prev.result[k \o "_created"] = Len(Fetched(prev, k).entries)
                   /\ prev.result[k \o "_skipped"] = 0
                   /\ last.result[k \o "_updated"] = Len(Fetched(prev, k).entries)
                   /\ last.result[k \o "_created"] = 0

\* a run overwrote the row of an earlier upload with the record's fields, after
\* a first run that found two new contacts which the second run updated
C7_Witness ==
    /\ SameDataTwice
    /\ Completed(prev)
    /\ Completed(last)
    /\ last.update_existing
    /\ AllNew(prev, "contacts")
    /\ prev.result.contacts_created = 2
    /\ last.result.contacts_updated = 2
    /\ \E i \in HadRow(prev, "messages") :
           \E j \in RowsOf(prev.before.messages, prev, "messages", i) :
               /\ prev.before.messages[j].message_type = "received"
               /\ messages[j].message_type = "sent"

Singular(k) ==
    CASE k = "messages" -> "message"
      [] k = "notifications" -> "notification"
      [] k = "contacts" -> "contact"

\* the run's batch of kind k holds exactly one record whose processing raises,
\* its other records are well-formed, and nothing else of the run fails
OneMalformed(run, k) ==
    /\ Completed(run)
    /\ ~run.saveFails
    /\ Cardinality(RaisingAt(run, k)) = 1
    /\ WellFormedAt(run, k) \cup RaisingAt(run, k) = 1..Len(Fetched(run, k).entries)
    /\ \A o \in SyncKinds \ {k} : RaisingAt(run, o) = {}

\* C8 as claimed: a batch of one malformed record and N well-formed records
\* yields created + updated = N and exactly one errors entry.
C8_OneErrorRestCreatedOrUpdated ==
    \A k \in SyncKinds :
        OneMalformed(last, k) =>
            /\ last.result[k \o "_created"] + last.result[k \o "_updated"]
                   = Cardinality(WellFormedAt(last, k))
            /\ Len(last.result.errors) = 1

\* C8 amended: a batch of one malformed record and N well-formed records
\* yields created + updated + skipped = N, with created + updated = N when
\* update_existing is true, and exactly one errors entry, which names the
\* malformed record's key.
C8_OneErrorRestProcessed ==
    \A k \in SyncKinds :
        OneMalformed(last, k) =>
            /\ last.result[k \o "_created"] + last.result[k \o "_updated"]
                       + last.result[k \o "_skipped"]
                   = Cardinality(WellFormedAt(last, k))
            /\ last.update_existing =>
                   last.result[k \o "_created"] + last.result[k \o "_updated"]
                       = Cardinality(WellFormedAt(last, k))
            /\ Len(last.result.errors) = 1
            /\ \A i \in RaisingAt(last, k) :
                   last.result.errors[1] =
                       "Error processing " \o Singular(k) \o " "
                           \o Fetched(last, k).entries[i].k
                           \o ": " \o int(Fetched(last, k).entries[i].k).exc

\* the malformed record sits between two well-formed ones, which both got a row
C8_Witness ==
    /\ OneMalformed(last, "messages")
    /\ RaisingAt(last, "messages") = {2}
    /\ WellFormedAt(last, "messages") = {1, 3}
    /\ last.result.messages_created = 1
    /\ last.result.messages_skipped = 1
    /\ Len(last.result.errors) = 1
    /\ \A i \in {1, 3} : RowsOf(messages, last, "messages", i) # {}

----------------------------------------------------------------------------
(* Claims about the fetchers *)

FetchReturned == last.op = "fetch"

\* initialize_firebase() succeeds in the fetch that returned last
InitialisationWorks == last.app \/ (fbEnv.url /\ fbEnv.creds)

\* positions of the candidate paths whose read succeeds with non-empty data
NonEmptyAt(k, d) ==
    {i \in 1..Len(PathsOf(k, d)) :
        /\ PathsOf(k, d)[i] \notin unreachable
        /\ Truthy(store[PathsOf(k, d)[i]])}

C10_FirstNonEmptyPathWins ==
    (FetchReturned /\ sdk /\ InitialisationWorks /\ ~last.out.raised) =>
        IF NonEmptyAt(last.kind, last.d) = {}
        THEN last.out.value = EmptyDict
        ELSE \E i \in NonEmptyAt(last.kind, last.d) :
                /\ \A j \in NonEmptyAt(last.kind, last.d) : i <= j
                /\ IF last.limit = 0
                   THEN last.out.value = store[PathsOf(last.kind, last.d)[i]]
                   ELSE Range(last.out.value.entries)
                            \subseteq Range(store[PathsOf(last.kind, last.d)[i]].entries)

\* the first path fails to read, a later one holds the value returned, and a
\* path after that holds other data
C10_Witness ==
    /\ FetchReturned
    /\ sdk
    /\ InitialisationWorks
    /\ ~last.out.raised
    /\ last.limit = 0
    /\ \E i, j \in NonEmptyAt(last.kind, last.d) :
           /\ i < j
           /\ last.out.value = store[PathsOf(last.kind, last.d)[i]]
           /\ last.out.value # store[PathsOf(last.kind, last.d)[j]]
           /\ PathsOf(last.kind, last.d)[1] \in unreachable
           /\ store[PathsOf(last.kind, last.d)[1]] # Absent

----------------------------------------------------------------------------
(* Claims about the fleet runs *)

FleetReturned == last.op = "hard_sync_all"

\* the positions of device d in the per-device results of the last fleet run
ResultsOf(d) ==
    {i \in 1..Len(last.result.device_results) :
        last.result.device_results[i].device_id = d}

\* the rows the tables hold for d are those they held plus those d's result counts
RowsCreated(dr) ==
    /\ dr.device_id \in DOMAIN devices
    /\ \A k \in {"messages", "notifications", "contacts"} :
          RowCount(Db[k], dr.device_id)
              = RowCount(last.before[k], dr.device_id) + dr[k \o "_created"]

\* C11: hard_sync_all_devices_from_firebase reconciles every device ID of the
\* universe exactly once whatever happens to the other devices: on return
\* devices_synced + devices_failed = total_devices_processed, every ID iterated
\* has exactly one per-device result, and the rows of every cleanly synced
\* device exist.
C11_EveryDeviceReconciledOnce ==
    FleetReturned =>
        /\ last.result.devices_synced + last.result.devices_failed
               = last.result.total_devices_processed
        /\ last.result.total_devices_processed = Cardinality(Range(last.order))
        /\ Len(last.result.device_results) = Cardinality(Range(last.order))
        /\ \A d \in Range(last.order) : Cardinality(ResultsOf(d)) = 1
        /\ last.result.devices_synced
               = Cardinality({i \in 1..Len(last.result.device_results) :
                                 Len(last.result.device_results[i].errors) = 0})
        /\ \A i \in 1..Len(last.result.device_results) :
              Len(last.result.device_results[i].errors) = 0
                  => RowsCreated(last.result.device_results[i])

\* D2's notifications fetch fails first, D1 is then synced cleanly and its
\* message and notification rows are created
C11_Witness ==
    /\ FleetReturned
    /\ last.order = <<"D2", "D1">>
    /\ last.runs[1].exc # None
    /\ last.result.devices_synced = 1
    /\ last.result.devices_failed = 1
    /\ last.result.device_results[2].messages_created = 1
    /\ \E i \in 1..Len(messages) : messages[i].device = "D1"
    /\ \E i \in 1..Len(notifications) : notifications[i].device = "D1"

FleetOps == {"hard_sync_all", "sync_all"}

\* the discovery of the last hard_sync_all could not read the store
DiscoveryFailed ==
    \/ initialize_firebase(last.sdk, last.app, last.env).raised
    \/ last.unreachable \cap {DeviceRoot, FastpayRoot} # {}

\* the per-device results of the last fleet run that carry errors
FailedResults ==
    {i \in 1..Len(last.result.device_results) :
        Len(last.result.device_results[i].errors) > 0}

\* something went wrong in the last fleet run: the local listing failed, the
\* discovery failed, the store was unavailable, or a per-device sync failed
FleetFailure ==
    \/ last.listFails
    \/ last.op = "hard_sync_all" /\ DiscoveryFailed
    \/ ~last.sdk
    \/ FailedResults # {}

\* C12 as stated: the fleet functions never raise, and every fleet-wide
\* failure shows as a non-zero devices_failed (and nowhere else)
C12_FailureOnlyAsDevicesFailed ==
    last.op \in FleetOps /\ FleetFailure =>
        /\ ~last.raised
        /\ last.result.devices_failed > 0

\* C12: hard_sync_all_devices_from_firebase and sync_all_devices_from_firebase
\* never propagate an exception.  A failing per-device sync is counted in
\* devices_failed; a failed local device listing leaves devices_failed = 0 and
\* is reported as the single entry of the fleet errors list; a failed
\* discovery alone is not reported in the result.
C12_FleetNeverRaises ==
    last.op \in FleetOps =>
        /\ ~last.raised
        /\ last.result.devices_failed = Cardinality(FailedResults)
        /\ last.listFails =>
              /\ last.result.devices_failed = 0
              /\ Len(last.result.device_results) = 0
              /\ last.result.errors
                     = << (IF last.op = "hard_sync_all"
                           THEN "Hard sync all devices failed: "
                           ELSE "Sync all devices failed: ") \o DatabaseError >>
        /\ ~last.listFails => last.result.errors = <<>>
        /\ (last.op = "hard_sync_all" /\ ~last.listFails /\ DiscoveryFailed)
              => /\ Range(last.order) = DOMAIN last.before.devices
                 /\ (last.before.devices = <<>> => last.result.devices_failed = 0)

\* the listing of a fleet of two registered devices fails
C12_Witness ==
    /\ last.op = "hard_sync_all"
    /\ last.listFails
    /\ DOMAIN last.before.devices = {"D1", "D2"}
    /\ last.result.devices_failed = 0
    /\ Len(last.result.errors) = 1
    /\ ~last.raised

\* the ids with a node in the store's top-level 'device' collection
UnderDevice ==
    {d \in Devices : \E p \in {"device/" \o d, "device/" \o d \o "/Notification",
                               "device/" \o d \o "/Contact"} :
                         Truthy(last.store[p])}

\* the ids of the legacy 'fastpay' collection with one of the three subtrees
UnderFastpay ==
    {d \in Devices : \E sub \in {"/messages", "/Notification", "/Contact"} :
                         Truthy(last.store["fastpay/" \o d \o sub])}

ExpectedUniverse ==
    IF DiscoveryFailed THEN DOMAIN last.before.devices
    ELSE DOMAIN last.before.devices \cup UnderDevice \cup UnderFastpay

\* C13: hard_sync_all_devices_from_firebase reconciles exactly the union of
\* the local Device identifiers, the keys of the store's 'device' collection
\* and the keys of the 'fastpay' collection whose value has a messages,
\* Notification or Contact subtree; total_devices_processed is the size of
\* that union; when the discovery fails the universe is the local ids alone.
C13_UniverseIsUnion ==
    FleetReturned /\ ~last.listFails =>
        /\ Range(last.order) = ExpectedUniverse
        /\ last.result.total_devices_processed = Cardinality(ExpectedUniverse)
        /\ {last.result.device_results[i].device_id :
               i \in 1..Len(last.result.device_results)} = ExpectedUniverse

\* no local device; D1 found under device/, D2 under fastpay/ only
C13_Witness ==
    /\ FleetReturned
    /\ ~last.listFails
    /\ ~DiscoveryFailed
    /\ last.before.devices = <<>>
    /\ UnderDevice = {"D1"}
    /\ UnderFastpay = {"D1", "D2"}
    /\ last.result.total_devices_processed = 2

\* C14: the result of hard_sync_all_devices_from_firebase carries a flat errors
\* list with one "device_id: message" string for every error of every failed
\* device, so devices_failed > 0 implies that errors is non-empty.
C14_FailedDevicesListed ==
    FleetReturned =>
        /\ last.result.devices_failed > 0 => Len(last.result.errors) > 0
        /\ \A i \in 1..Len(last.result.device_results) :
              \A j \in 1..Len(last.result.device_results[i].errors) :
                  \E k \in 1..Len(last.result.errors) :
                      last.result.errors[k]
                          = last.result.device_results[i].device_id \o ": "
                                \o last.result.device_results[i].errors[j]

----------------------------------------------------------------------------
(* Claims about the course of one hard sync *)

\* C15: every hard_sync_device_from_firebase run for a device that has a local
\* row, whatever its outcome, overwrites sync_metadata with the run's counts
\* and updates each kind's *_last_synced_at if and only if that kind's fetched
\* count is at least 1.
C15_MetadataAndTimestampsEveryRun ==
    HardSyncReturned /\ last.had_row =>
        /\ last.d \in DOMAIN devices
        /\ devices[last.d].sync_metadata = SyncMetadata(last.result)
        /\ \A k \in {"messages", "notifications", "contacts"} :
              (devices[last.d][k \o "_last_synced_at"] = Some(last.now))
                  <=> (last.result[k \o "_fetched"] >= 1)

\* the runs of the last fleet run in which an exception reached the outer
\* handler of hard_sync_device_from_firebase
Escaped == {i \in 1..Len(last.runs) : last.runs[i].exc # None}

\* the handler could store the failure: the row exists and its save works
Persistable(i) ==
    /\ last.runs[i].d \in DOMAIN last.runs[i].after.devices
    /\ last.runs[i].d \notin last.failing

ChildWrites == {i \in 1..Len(last.log) : last.log[i].ev = "rows"}

\* C17: in every hard_sync_device_from_firebase run device-info is fetched
\* before messages, notifications and contacts, and the Device row is written
\* with sync_status = 'syncing' before the run's first Message, Notification
\* or Contact write (new device, existing device with update_existing True or
\* False alike).
C17_InfoAndDeviceRowFirst ==
    HardSyncReturned =>
        /\ Len(last.log) >= 1
        /\ last.log[1].ev = "fetch" /\ last.log[1].kind = "info"
        /\ \A i \in 2..Len(last.log) : last.log[i].kind # "info" \/ last.log[i].ev = "device"
        /\ \A i \in ChildWrites :
              /\ last.log[i].status = "syncing"
              /\ \E j \in 1..(i - 1) :
                    /\ last.log[j].ev = "device"
                    /\ last.log[j].status = "syncing"
                    /\ \A k \in (j + 1)..i : last.log[k].status = "syncing"

\* an existing device synced with update_existing = False: rows of two kinds
\* are written after the row was marked
C17_Witness ==
    /\ HardSyncReturned
    /\ last.had_row
    /\ ~last.update_existing
    /\ Cardinality(ChildWrites) >= 2

----------------------------------------------------------------------------
(* Claims about the message-only sync *)

\* the candidate paths of the synced device that held messages before the run
HeldMessages ==
    {i \in 1..Len(MessagePaths(last.d)) :
        /\ MessagePaths(last.d)[i] \notin last.unreachable
        /\ Truthy(last.store[MessagePaths(last.d)[i]])}

\* the path the run's messages were fetched from: the first that held any
FetchedFrom ==
    MessagePaths(last.d)[CHOOSE i \in HeldMessages : \A j \in HeldMessages : i <= j]

\* the keys of the n entries with the greatest numeric timestamps
Latest(entries, n) ==
    {SortDesc(entries)[i].k : i \in 1..(IF n < Len(entries) THEN n ELSE Len(entries))}

\* C18: after sync_messages_from_firebase(device_id, keep_latest = N) returns
\* with firebase_cleaned = True, the store holds at most N message entries for
\* the device, exactly the N with the greatest numeric timestamps among those
\* present before, whichever candidate path they were fetched from.
C18_PrunedToLatest ==
    (last.op = "sync_messages" /\ last.result.firebase_cleaned /\ HeldMessages # {}) =>
        /\ Truthy(store[FetchedFrom]) => Len(store[FetchedFrom].entries) <= last.keep_latest
        /\ {store[FetchedFrom].entries[i].k :
               i \in 1..(IF Truthy(store[FetchedFrom])
                         THEN Len(store[FetchedFrom].entries) ELSE 0)}
               = Latest(last.store[FetchedFrom].entries, last.keep_latest)

----------------------------------------------------------------------------
(* Claims about records of an unexpected shape or with a bad key *)

\* positions of the fetched records of kind k whose value is neither a
\* structured mapping nor a string
OddAt(run, k) ==
    {i \in 1..Len(Fetched(run, k).entries) :
        Fetched(run, k).entries[i].shape \notin {"dict", "str"}}

\* the errors entry err is about the record with the given key
ErrorNames(err, k, key) ==
    /\ Len(err) >= Len("Error processing " \o Singular(k) \o " " \o key \o ": ")
    /\ SubSeq(err, 1, Len("Error processing " \o Singular(k) \o " " \o key \o ": "))
           = "Error processing " \o Singular(k) \o " " \o key \o ": "

\* the errors of the run that are about the i-th record of kind k
ErrorsAbout(run, k, i) ==
    {j \in 1..Len(run.result.errors) :
        ErrorNames(run.result.errors[j], k, Fetched(run, k).entries[i].k)}

\* rows of the table that carry the key of the i-th record, whatever its shape
RowsKeyed(rows, run, k, i) ==
    IF Raises(k, Fetched(run, k).entries[i]) THEN {}
    ELSE RowsOf(rows, run, k, i)

\* C19 as stated: in a hard sync a fetched entry of an unrecognised shape
\* creates or updates no row, counts one in the kind's skipped and adds
\* nothing to errors, for messages, notifications and contacts alike
C19_UnrecognisedShapeSkipped ==
    Completed(last) =>
        \A k \in SyncKinds :
            /\ last.result[k \o "_skipped"] >= Cardinality(OddAt(last, k))
            /\ \A i \in OddAt(last, k) :
                  /\ ErrorsAbout(last, k, i) = {}
                  /\ RowsKeyed(Db[k], last, k, i) = RowsKeyed(last.before[k], last, k, i)

\* C19: in a hard sync a fetched message or notification with a numeric key
\* whose value is neither a mapping nor a string creates or updates no row,
\* counts one in the kind's skipped and adds nothing to errors (with a
\* non-numeric key it is an error and is not counted).  A contact whose value
\* is not a mapping is taken as a bare phone number: it gets a row with an
\* empty name like any other contact and is not counted as skipped for its
\* shape.
C19_UnrecognisedShapeByKind ==
    Completed(last) =>
        /\ \A k \in {"messages", "notifications"} :
              DistinctKeys(last, k) =>
                  /\ last.result[k \o "_skipped"]
                         = Cardinality(OddAt(last, k) \ RaisingAt(last, k))
                               + (IF last.update_existing THEN 0
                                  ELSE Cardinality(HadRow(last, k)))
                  /\ \A i \in OddAt(last, k) \ RaisingAt(last, k) :
                        /\ ErrorsAbout(last, k, i) = {}
                        /\ (\A j \in WellFormedAt(last, k) :
                               NaturalKey(k, Fetched(last, k).entries[j])
                                   # NaturalKey(k, Fetched(last, k).entries[i]))
                              => /\ RowsOf(Db[k], last, k, i)
                                        = RowsOf(last.before[k], last, k, i)
                                 /\ \A j \in RowsOf(Db[k], last, k, i) :
                                        Db[k][j] = last.before[k][j]
                  /\ \A i \in OddAt(last, k) \cap RaisingAt(last, k) :
                        Cardinality(ErrorsAbout(last, k, i)) = 1
        /\ DistinctKeys(last, "contacts") =>
              /\ last.result.contacts_skipped
                     = IF last.update_existing THEN 0
                       ELSE Cardinality(HadRow(last, "contacts"))
              /\ \A i \in OddAt(last, "contacts") :
                    /\ ErrorsAbout(last, "contacts", i) = {}
                    /\ Cardinality(RowsOf(contacts, last, "contacts", i)) = 1
                    /\ (i \notin HadRow(last, "contacts") \/ last.update_existing) =>
                          \A j \in RowsOf(contacts, last, "contacts", i) :
                              contacts[j]
                                  = [device |-> last.d,
                                     phone_number |-> Fetched(last, "contacts").entries[i].k,
                                     name |-> ""]

\* one record of an unexpected shape per kind: the message and the
\* notification are skipped, the contact gets a row
C19_Witness ==
    /\ Completed(last)
    /\ last.before.contacts = <<>>
    /\ OddAt(last, "messages") \ RaisingAt(last, "messages") # {}
    /\ OddAt(last, "notifications") # {}
    /\ OddAt(last, "contacts") # {}
    /\ last.result.messages_skipped = 1
    /\ last.result.notifications_skipped = 1
    /\ last.result.contacts_skipped = 0
    /\ last.result.contacts_created = 2
    /\ \E j \in 1..Len(contacts) : contacts[j].phone_number = "+3" /\ contacts[j].name = ""

\* C20 as stated: each per-record error of a hard sync (unexpected shape, bad
\* timestamp) is both appended to errors with the offending key and counted
\* in the kind's skipped count
C20_ErrorsListedAndSkipped ==
    Completed(last) =>
        \A k \in SyncKinds :
            /\ \A i \in RaisingAt(last, k) \cup OddAt(last, k) :
                  ErrorsAbout(last, k, i) # {}
            /\ last.result[k \o "_skipped"]
                   >= Cardinality(RaisingAt(last, k) \cup OddAt(last, k))

\* C20: a record whose processing raises (bad timestamp) is appended to errors
\* as "Error processing <kind> <key>: <exception>" and is counted in none of
\* created, updated and skipped; a record of an unexpected shape is counted in
\* skipped and adds nothing to errors; every entry of errors is about one
\* raising record.
C20_ErrorsListedNotSkipped ==
    (Completed(last) /\ ~last.saveFails) =>
        /\ Len(last.result.errors)
               = Cardinality(RaisingAt(last, "messages"))
                     + Cardinality(RaisingAt(last, "notifications"))
        /\ \A k \in SyncKinds :
              /\ \A i \in RaisingAt(last, k) :
                    \E j \in 1..Len(last.result.errors) :
                        last.result.errors[j]
                            = "Error processing " \o Singular(k) \o " "
                                  \o Fetched(last, k).entries[i].k \o ": "
                                  \o int(Fetched(last, k).entries[i].k).exc
              /\ \A i \in UnrecognisedAt(last, k) : ErrorsAbout(last, k, i) = {}
              /\ last.result[k \o "_created"] + last.result[k \o "_updated"]
                         + last.result[k \o "_skipped"]
                     <= Len(Fetched(last, k).entries) - Cardinality(RaisingAt(last, k))
              /\ DistinctKeys(last, k) =>
                    last.result[k \o "_skipped"]
                        = Cardinality(UnrecognisedAt(last, k))
                              + (IF last.update_existing THEN 0
                                 ELSE Cardinality(HadRow(last, k)))

\* a message with a bad key between two good ones: one errors entry, nothing
\* skipped
C20_Witness ==
    /\ Completed(last)
    /\ ~last.saveFails
    /\ RaisingAt(last, "messages") = {2}
    /\ Len(last.result.errors) = 1
    /\ last.result.messages_fetched = 3
    /\ last.result.messages_created = 2
    /\ last.result.messages_skipped = 0

----------------------------------------------------------------------------
(* Claims about the Device row's sync_status *)

\* C29: in every reachable state each Device's sync_status is one of
\* never_synced, syncing, synced, sync_failed, out_of_sync, whatever sequence
\* of sync runs, uploads, resets and POST /api/sync/status/ requests occurred.
C29_SyncStatusInChoices ==
    \A d \in DOMAIN devices : devices[d].sync_status \in SyncStatusChoices

----------------------------------------------------------------------------
(* Claims about the counters of one hard sync *)

\* the errors entries of the run that the loop of kind k appended
ErrorsOfKind(run, k) ==
    {j \in 1..Len(run.result.errors) :
        /\ Len(run.result.errors[j]) >= Len("Error processing " \o Singular(k) \o " ")
        /\ SubSeq(run.result.errors[j], 1, Len("Error processing " \o Singular(k) \o " "))
               = "Error processing " \o Singular(k) \o " "}

\* C30: for each resource kind in every hard_sync_device_from_firebase result,
\* fetched = created + updated + skipped + (number of errors entries of that
\* kind): every fetched entry is accounted for by exactly one counter.
C30_FetchedAccountedFor ==
    HardSyncReturned =>
        \A k \in SyncKinds :
            last.result[k \o "_fetched"]
                = last.result[k \o "_created"] + last.result[k \o "_updated"]
                      + last.result[k \o "_skipped"]
                      + Cardinality(ErrorsOfKind(last, k))

\* the last hard sync wrote the Device row with sync_status = 'syncing'
SetSyncing ==
    /\ HardSyncReturned
    /\ \E i \in 1..Len(last.log) : last.log[i].ev = "device" /\ last.log[i].status = "syncing"

\* C27: a finished run never leaves a device in 'syncing': if a
\* hard_sync_device_from_firebase run set the device's sync_status to
\* 'syncing', then when it returns, no other run for the device being in
\* progress, the status is 'synced' or 'sync_failed'.
C27_NeverLeftSyncing ==
    SetSyncing =>
        /\ last.d \in DOMAIN devices
        /\ devices[last.d].sync_status \in {"synced", "sync_failed"}

\* the message entries of the synced device that the last message-only sync
\* removed from the store, as <<path, key>>
Pruned ==
    {pk \in UNION {{<<MessagePaths(last.d)[i], last.store[MessagePaths(last.d)[i]].entries[j].k>> :
                       j \in 1..Len(last.store[MessagePaths(last.d)[i]].entries)} :
                   i \in {i \in 1..Len(MessagePaths(last.d)) :
                             last.store[MessagePaths(last.d)[i]].kind = "dict"}} :
        \/ store[pk[1]].kind # "dict"
        \/ \A j \in 1..Len(store[pk[1]].entries) : store[pk[1]].entries[j].k # pk[2]}

\* C26: every message entry that sync_messages_from_firebase deletes from the
\* store has, when it is deleted, a Message row with the same (device,
\* timestamp): entries skipped as malformed or failed with a per-record error
\* are never pruned unsynced.
C26_PrunedOnlyIfSynced ==
    last.op = "sync_messages" =>
        \A pk \in Pruned :
            /\ ~int(pk[2]).raised
            /\ Matching(messages, last.d, int(pk[2]).value, "timestamp") # {}


----------------------------------------------------------------------------
(* APK login: activation codes, bank cards and validate_apk_login *)

Codes == {"K1", "K2"}

ActivateDevice(d, code) ==
    /\ clock <= MaxOps
    /\ d \in DOMAIN devices
    /\ codes' = activate_device(codes, d, code)
    /\ Step([op |-> "activate", d |-> d, code |-> code, now |-> clock])
    /\ UNCHANGED <<sdk, fbApp, fbEnv, store, unreachable, devices, messages,
                   notifications, contacts, lastRun, statusBy, cards>>

CreateBankCard(d, status) ==
    /\ clock <= MaxOps
    /\ cards' = create_bank_card(devices, cards, d, status)
    /\ Step([op |-> "create_card", d |-> d, status |-> status, now |-> clock])
    /\ UNCHANGED <<sdk, fbApp, fbEnv, store, unreachable, devices, messages,
                   notifications, contacts, lastRun, statusBy, codes>>

UpdateBankCard(d, status) ==
    /\ clock <= MaxOps
    /\ d \in DOMAIN cards
    /\ cards' = update_bank_card(cards, d, status)
    /\ Step([op |-> "update_card", d |-> d, status |-> status, now |-> clock])
    /\ UNCHANGED <<sdk, fbApp, fbEnv, store, unreachable, devices, messages,
                   notifications, contacts, lastRun, statusBy, codes>>

ValidateApkLogin(code) ==
    /\ clock <= MaxOps
    /\ LET r == validate_apk_login(devices, codes, cards, code)
       IN Tick([op |-> "validate_apk_login", code |-> code,
                approved |-> r.approved, http |-> r.http, now |-> clock])
    /\ UNCHANGED <<sdk, fbApp, fbEnv, store, unreachable, devices, messages,
                   notifications, contacts, lastRun, statusBy>>

\* <<Device rows, codes, cards>>: nobody registered; D1 activated with a card;
\* D1 and D2 activated with different codes, D1 with a card
LoginTables ==
    { <<<<>>, <<>>, <<>>>>,
      <<[x \in {"D1"} |-> NewDevice(None, "never_synced")],
        [x \in {"D1"} |-> "K1"], [x \in {"D1"} |-> "active"]>>,
      <<[x \in Devices |-> NewDevice(None, "never_synced")],
        [x \in Devices |-> IF x = "D1" THEN "K1" ELSE "K2"],
        [x \in {"D1"} |-> "active"]>> }

InitLogin ==
    /\ sdk = TRUE
    /\ fbApp = FALSE
    /\ fbEnv = [url |-> TRUE, creds |-> TRUE]
    /\ store = EmptyStore
    /\ unreachable = {}
    /\ \E t \in LoginTables :
          /\ devices = t[1]
          /\ codes = t[2]
          /\ cards = t[3]
    /\ syncLogs = <<>>
    /\ command = None
    /\ cache = <<>>
    /\ threads = Idle
    /\ tally = NoTally
    /\ messages = <<>>
    /\ notifications = <<>>
    /\ contacts = <<>>
    /\ clock = 1
    /\ last = NoOp
    /\ prev = NoOp
    /\ lastRun = [x \in Devices |-> "none"]
    /\ statusBy = [x \in Devices |-> IF x \in DOMAIN devices THEN "register" ELSE "none"]

NextLogin ==
    \/ \E d \in Devices : RegisterDevice(d, None)
    \/ \E d \in Devices, code \in {None, Some("K1")} : ActivateDevice(d, code)
    \/ \E d \in Devices : CreateBankCard(d, "active")
    \/ \E d \in Devices, s \in {"active", "blocked"} : UpdateBankCard(d, s)
    \/ \E d \in Devices : ResetDevice(d)
    \/ \E code \in Codes \cup {""} : ValidateApkLogin(code)

SpecLogin == InitLogin /\ [][NextLogin]_vars

\* a Device row with this code and an active bank card
ActiveCardFor(code) ==
    \E d \in DevicesWithCode(devices, codes, code) :
        d \in DOMAIN cards /\ cards[d] = "active"

\* C22: validate_apk_login approves a code exactly when a Device with that
\* code exists, has a bank card, and the card's status is 'active'.
C22_ApprovedIffActiveCard ==
    (last.op = "validate_apk_login" /\ last.code # "") =>
        (last.approved <=> ActiveCardFor(last.code))


----------------------------------------------------------------------------
(* The management commands hard_sync_firebase and sync_firebase_messages    *)
(* with their FirebaseSyncLog row                                           *)

SyncLogTerminal == {"completed", "failed", "partial"}

\* FirebaseSyncLog.objects.create(sync_type=..., status='running', started_at=now)
NewSyncLog(sync_type, dry_run, now) ==
    [sync_type |-> sync_type,
     status |-> "running",
     started_at |-> now,
     completed_at |-> None,
     device |-> None,
     devices_processed |-> 0,
     devices_succeeded |-> 0,
     devices_failed |-> 0,
     error_message |-> None,
     dry_run |-> dry_run]

\* the branch `if not dry_run:` with the sync call in it, taken on every run
RunUnlessDry_Always(dry_run, skipped, ran) == ran

\* `if not dry_run:` around the call of the sync function
RunUnlessDry(dry_run, skipped, ran) == IF dry_run THEN skipped ELSE ran

\* a fleet run's status with 'partial' and 'failed' exchanged
FleetLogStatus_Exchanged(result) ==
    IF result.devices_failed = 0 THEN "completed"
    ELSE IF result.devices_synced > 0 THEN "failed"
    ELSE "partial"

\* "Determine status" of the all-devices branch
FleetLogStatus(result) ==
    IF result.devices_failed = 0 THEN "completed"
    ELSE IF result.devices_synced > 0 THEN "partial"
    ELSE "failed"

\* 'completed' if not result['errors'] else 'failed'
DeviceLogStatus(result) == IF Len(result.errors) = 0 THEN "completed" ELSE "failed"

\* '; '.join(result['errors']) if result['errors'] else None
ErrorMessage(errors) == IF Len(errors) = 0 THEN None ELSE Some(Join(errors, "; "))

\* the fields a single-device run writes to its log before sync_log.save()
DeviceLogDone(row, result, now) ==
    [row EXCEPT !.devices_processed = 1,
                !.devices_succeeded = IF Len(result.errors) = 0 THEN 1 ELSE 0,
                !.devices_failed = IF Len(result.errors) = 0 THEN 0 ELSE 1,
                !.error_message = ErrorMessage(result.errors),
                !.completed_at = Some(now),
                !.status = DeviceLogStatus(result)]

\* the dry-run completion: status 'completed', completed_at
DryLogDone(row, now) == [row EXCEPT !.status = "completed", !.completed_at = Some(now)]

\* an except branch of the single-device form
LogFailed(row, error_msg, now) ==
    [row EXCEPT !.status = "failed", !.error_message = Some(error_msg),
                !.completed_at = Some(now)]

\* what a command left behind: the row as the database holds it, how the
\* command ended, whether it called the sync function
CommandOut(row, outcome, ran) == [row |-> row, outcome |-> outcome, ran |-> ran]

\* hard_sync_firebase --device-id d; logFails: the number of sync_log.save()
\* calls that raise, counted from the first
hard_sync_firebase_device(created, d, dry_run, result, device, now, logFails) ==
    LET done == IF dry_run THEN DryLogDone(created, now)
                ELSE DeviceLogDone([created EXCEPT !.device = device], result, now)
    IN IF logFails = 0
       THEN CommandOut(done, "returned", ~dry_run)
       ELSE IF logFails = 1
       THEN CommandOut(LogFailed(done, "Error hard syncing device " \o d, now),
                       "CommandError", ~dry_run)
       ELSE CommandOut(created, "raised", ~dry_run)

\* the all-devices form of both commands: one save, no handler around it
all_devices_log(created, dry_run, processed, result, device_count, now, logFails) ==
    LET done == IF dry_run
                THEN [DryLogDone(created, now) EXCEPT !.devices_processed = device_count]
                ELSE [created EXCEPT !.devices_processed = processed,
                                     !.devices_succeeded = result.devices_synced,
                                     !.devices_failed = result.devices_failed,
                                     !.error_message = ErrorMessage(result.errors),
                                     !.completed_at = Some(now),
                                     !.status = FleetLogStatus(result)]
    IN IF logFails = 0
       THEN CommandOut(done, "returned", ~dry_run)
       ELSE CommandOut(created, "raised", ~dry_run)

\* sync_firebase_messages --device-id d, up to the call of the sync function:
\* Device.objects.get, sync_log.device = device, the first save
sync_firebase_messages_found(created, d, exists, now, logFails) ==
    IF ~exists
    THEN (IF logFails = 0
          THEN CommandOut(LogFailed(created, "Device " \o d \o " not found", now),
                          "CommandError", FALSE)
          ELSE CommandOut(created, "raised", FALSE))
    ELSE IF logFails = 0
    THEN CommandOut([created EXCEPT !.device = Some(d)], "running", TRUE)
    ELSE IF logFails = 1
    THEN CommandOut(LogFailed([created EXCEPT !.device = Some(d)],
                              "Error syncing device " \o d, now),
                    "CommandError", FALSE)
    ELSE CommandOut(created, "raised", FALSE)

\* the rest of the single-device form; found: the outcome of the lookup
sync_firebase_messages_device(found, dry_run, result, now) ==
    IF found.outcome # "running" THEN found
    ELSE IF dry_run
    THEN CommandOut(DryLogDone(found.row, now), "returned", FALSE)
    ELSE CommandOut(DeviceLogDone(found.row, result, now), "returned", TRUE)

\* a command's run as the history keeps it
CommandOp(name, device_id, dry_run, logFails, out, result) ==
    [op |-> name, device_id |-> device_id, dry_run |-> dry_run,
     logFails |-> logFails, outcome |-> out.outcome, ran |-> out.ran,
     result |-> result, now |-> clock, before |-> Db, store |-> store,
     app |-> fbApp, logs |-> command[1].logs]

\* 'hard_sync_single_device' if device_id else 'hard_sync_all_devices', and the
\* same choice of sync_firebase_messages
SyncType(name, device_id) ==
    IF name = "hard_sync_firebase"
    THEN (IF device_id # None THEN "hard_sync_single_device" ELSE "hard_sync_all_devices")
    ELSE (IF device_id # None THEN "single_device" ELSE "all_devices")

\* handle() up to the branch on device_id: the log row is created
StartCommand(name, device_id, option, dry_run, logFails) ==
    /\ clock <= MaxFleetOps
    /\ command = None
    /\ syncLogs' = Append(syncLogs, NewSyncLog(SyncType(name, device_id), dry_run, clock))
    /\ command' = Some([name |-> name, device_id |-> device_id, option |-> option,
                        dry_run |-> dry_run, logFails |-> logFails, logs |-> syncLogs])
    /\ UNCHANGED <<sdk, fbApp, fbEnv, store, unreachable, devices, messages,
                   notifications, contacts, clock, last, prev, lastRun, statusBy,
                   codes, cards, cache, threads, tally>>

\* the command in progress was started with these options
Running(name, device_id, option, dry_run, logFails) ==
    /\ command # None
    /\ command[1].name = name
    /\ command[1].device_id = device_id
    /\ command[1].option = option
    /\ command[1].dry_run = dry_run
    /\ command[1].logFails = logFails

\* the row the command in progress created
SyncLog == syncLogs[Len(syncLogs)]

\* the command ends: row is what the database holds of its log by then
CommandStep(op, row) ==
    /\ clock' = clock + 1
    /\ prev' = last
    /\ last' = op
    /\ syncLogs' = [syncLogs EXCEPT ![Len(syncLogs)] = row]
    /\ command' = None
    /\ UNCHANGED <<sdk, fbEnv, unreachable, codes, cards, cache, threads, tally>>

\* the sync function was not called
HardSyncSkipped(d) ==
    [db |-> Db, result |-> NewResult(d), app |-> fbApp, exc |-> None,
     assigned |-> FALSE, log |-> <<>>]

\* r: what hard_sync_device_from_firebase did, if it was called
HardSyncFirebaseDeviceReturn(d, update_existing, dry_run, logFails, r) ==
    /\ devices' = r.db.devices
    /\ messages' = r.db.messages
    /\ notifications' = r.db.notifications
    /\ contacts' = r.db.contacts
    /\ fbApp' = r.app
    /\ UNCHANGED store
    /\ lastRun' = IF dry_run THEN lastRun
                   ELSE Tagged(lastRun, {d}, Outcome(r.result.errors))
    /\ statusBy' = IF r.assigned
                    THEN Tagged(statusBy, {d}, "hard_sync_" \o Outcome(r.result.errors))
                    ELSE statusBy
    /\ LET out == hard_sync_firebase_device(
                      SyncLog, d, dry_run,
                      r.result,
                      IF d \in DOMAIN r.db.devices THEN Some(d) ELSE None,
                      clock, logFails)
       IN CommandStep(CommandOp("hard_sync_firebase", Some(d), dry_run, logFails,
                                out, r.result),
                      out.row)

HardSyncFirebaseDevice(d, update_existing, dry_run, logFails) ==
    /\ Running("hard_sync_firebase", Some(d), update_existing, dry_run, logFails)
    /\ HardSyncFirebaseDeviceReturn(d, update_existing, dry_run, logFails,
          RunUnlessDry(dry_run, HardSyncSkipped(d),
                       hard_sync_device_from_firebase(sdk, fbApp, fbEnv, store,
                                                      unreachable, Db, clock, d,
                                                      update_existing, FALSE)))

HardSyncAllSkipped ==
    [db |-> Db, app |-> fbApp, raised |-> FALSE, result |-> NewFleetResult,
     runs |-> <<>>]

\* r: what hard_sync_all_devices_from_firebase did, if it was called
HardSyncFirebaseAllReturn(update_existing, dry_run, logFails, r) ==
    /\ devices' = r.db.devices
    /\ messages' = r.db.messages
    /\ notifications' = r.db.notifications
    /\ contacts' = r.db.contacts
    /\ fbApp' = r.app
    /\ UNCHANGED store
    /\ lastRun' = FleetOutcomes(lastRun, [i \in 1..Len(r.runs) |-> r.runs[i].d],
                                r.result.device_results, "")
    /\ statusBy' = FleetOutcomes(statusBy,
                                 SelectSeq([i \in 1..Len(r.runs) |-> r.runs[i].d],
                                           LAMBDA x : \E i \in 1..Len(r.runs) :
                                               r.runs[i].d = x /\ r.runs[i].assigned),
                                 SelectSeq(r.result.device_results,
                                           LAMBDA dr : \E i \in 1..Len(r.runs) :
                                               r.runs[i].d = dr.device_id
                                               /\ r.runs[i].assigned),
                                 "hard_sync_")
    /\ LET out == all_devices_log(
                      SyncLog, dry_run,
                      r.result.total_devices_processed, r.result,
                      Cardinality(DOMAIN devices), clock, logFails)
       IN CommandStep(CommandOp("hard_sync_firebase", None, dry_run, logFails,
                                out, r.result),
                      out.row)

HardSyncFirebaseAll(update_existing, dry_run, logFails) ==
    /\ Running("hard_sync_firebase", None, update_existing, dry_run, logFails)
    /\ \E order \in Orders(IF dry_run THEN {}
                            ELSE FleetUniverse(sdk, fbApp, fbEnv, store, unreachable,
                                               DOMAIN devices)) :
          HardSyncFirebaseAllReturn(update_existing, dry_run, logFails,
              RunUnlessDry(dry_run, HardSyncAllSkipped,
                           hard_sync_all_devices_from_firebase(
                               sdk, fbApp, fbEnv, store, unreachable, Db, clock,
                               update_existing, {}, FALSE, order)))

SyncMessagesSkipped(d) ==
    MessagesOut(messages, store, fbApp, NewMessagesResult(d))

\* r: what sync_messages_from_firebase did, if it was called
SyncFirebaseMessagesDeviceReturn(d, dry_run, logFails, found, r) ==
    /\ messages' = r.messages
    /\ store' = r.store
    /\ fbApp' = r.app
    /\ UNCHANGED <<devices, notifications, contacts, statusBy>>
    /\ lastRun' = IF found.ran /\ ~dry_run
                   THEN Tagged(lastRun, {d}, Outcome(r.result.errors))
                   ELSE lastRun
    /\ LET out == sync_firebase_messages_device(found, dry_run, r.result, clock)
       IN CommandStep(CommandOp("sync_firebase_messages", Some(d), dry_run, logFails,
                                out, r.result),
                      out.row)

SyncFirebaseMessagesFound(d, keep_latest, dry_run, logFails, found) ==
    SyncFirebaseMessagesDeviceReturn(d, dry_run, logFails, found,
        RunUnlessDry(dry_run \/ ~found.ran, SyncMessagesSkipped(d),
                     sync_messages_from_firebase(sdk, fbApp, fbEnv, store,
                                                 unreachable, Db, d, keep_latest)))

SyncFirebaseMessagesDevice(d, keep_latest, dry_run, logFails) ==
    /\ Running("sync_firebase_messages", Some(d), keep_latest, dry_run, logFails)
    /\ SyncFirebaseMessagesFound(d, keep_latest, dry_run, logFails,
          sync_firebase_messages_found(SyncLog, d, d \in DOMAIN devices,
                                       clock, logFails))

SyncAllSkipped ==
    [db |-> Db, store |-> store, app |-> fbApp, raised |-> FALSE,
     result |-> NewSyncAllResult]

\* r: what sync_all_devices_from_firebase did, if it was called
SyncFirebaseMessagesAllReturn(dry_run, logFails, order, r) ==
    /\ messages' = r.db.messages
    /\ store' = r.store
    /\ fbApp' = r.app
    /\ UNCHANGED <<devices, notifications, contacts, statusBy>>
    /\ lastRun' = FleetOutcomes(lastRun, IF dry_run THEN <<>> ELSE order,
                                r.result.device_results, "")
    /\ LET out == all_devices_log(
                      SyncLog, dry_run,
                      r.result.total_devices, r.result,
                      Cardinality(DOMAIN devices), clock, logFails)
       IN CommandStep(CommandOp("sync_firebase_messages", None, dry_run, logFails,
                                out, r.result),
                      out.row)

SyncFirebaseMessagesAll(keep_latest, dry_run, logFails) ==
    /\ Running("sync_firebase_messages", None, keep_latest, dry_run, logFails)
    /\ \E order \in Orders(DOMAIN devices) :
          SyncFirebaseMessagesAllReturn(dry_run, logFails, order,
              RunUnlessDry(dry_run, SyncAllSkipped,
                           sync_all_devices_from_firebase(
                               sdk, fbApp, fbEnv, store, unreachable, Db, keep_latest,
                               FALSE, order)))

\* <<--device-id, --dry-run, failing log saves>>
CommandCalls ==
    { <<None, FALSE, 0>>, <<None, TRUE, 0>>, <<None, FALSE, 1>>,
      <<Some("D1"), FALSE, 0>>, <<Some("D1"), TRUE, 0>>, <<Some("D1"), FALSE, 1>>,
      <<Some("D1"), FALSE, 2>>, <<Some("D2"), TRUE, 0>> }

InitCommands ==
    /\ sdk = TRUE
    /\ fbApp = FALSE
    /\ fbEnv = [url |-> TRUE, creds |-> TRUE]
    /\ store \in FleetStores
    /\ unreachable \in {{}, {DeviceRoot}}
    /\ devices \in FleetTables
    /\ messages = <<>>
    /\ notifications = <<>>
    /\ contacts = <<>>
    /\ clock = 1
    /\ last = NoOp
    /\ prev = NoOp
    /\ lastRun = [x \in Devices |-> "none"]
    /\ statusBy = [x \in Devices |-> IF x \in DOMAIN devices THEN "register" ELSE "none"]
    /\ codes = <<>>
    /\ cards = <<>>
    /\ syncLogs = <<>>
    /\ command = None
    /\ cache = <<>>
    /\ threads = Idle
    /\ tally = NoTally

NextCommands ==
    \/ \E c \in CommandCalls : StartCommand("hard_sync_firebase", c[1], TRUE, c[2], c[3])
    \/ \E c \in CommandCalls : StartCommand("sync_firebase_messages", c[1], 1, c[2], c[3])
    \/ \E c \in CommandCalls :
          /\ c[1] # None
          /\ HardSyncFirebaseDevice(c[1][1], TRUE, c[2], c[3])
    \/ \E c \in CommandCalls :
          /\ c[1] = None
          /\ HardSyncFirebaseAll(TRUE, c[2], c[3])
    \/ \E c \in CommandCalls :
          /\ c[1] # None
          /\ SyncFirebaseMessagesDevice(c[1][1], 1, c[2], c[3])
    \/ \E c \in CommandCalls :
          /\ c[1] = None
          /\ SyncFirebaseMessagesAll(1, c[2], c[3])

SpecCommands == InitCommands /\ [][NextCommands]_vars


CommandOps == {"hard_sync_firebase", "sync_firebase_messages"}

\* the log row of the command that ended last
LastLog == syncLogs[Len(last.logs) + 1]

\* the command that ended last returned or raised CommandError
CommandEnded ==
    last.op \in CommandOps /\ last.outcome \in {"returned", "CommandError"}

\* a log row's status follows the fleet rule on the counts it records
FleetRule(row) ==
    /\ row.status = "completed" <=> row.devices_failed = 0
    /\ row.status = "partial" <=> (row.devices_failed > 0 /\ row.devices_succeeded > 0)
    /\ row.status = "failed" <=> (row.devices_failed > 0 /\ row.devices_succeeded = 0)

LogTerminalAtEnd ==
    CommandEnded =>
        /\ LastLog.status \in SyncLogTerminal
        /\ LastLog.completed_at # None
        /\ last.device_id = None =>
              /\ FleetRule(LastLog)
              /\ last.ran => /\ LastLog.devices_failed = last.result.devices_failed
                             /\ LastLog.devices_succeeded = last.result.devices_synced

\* a step adds at most one row, with status 'running', and changes no other row
\* than the one of the command in progress
LogStep ==
    /\ Len(syncLogs') \in {Len(syncLogs), Len(syncLogs) + 1}
    /\ Len(syncLogs') > Len(syncLogs) => syncLogs'[Len(syncLogs')].status = "running"
    /\ \A i \in 1..Len(syncLogs) :
          syncLogs'[i] # syncLogs[i] =>
              /\ command # None
              /\ i = Len(syncLogs)
              /\ syncLogs[i].status = "running"

\* C21: a FirebaseSyncLog row of a sync command is created with status
\* 'running'; once the command has returned or raised CommandError the row has
\* a status in {completed, failed, partial} and completed_at set, for a fleet
\* run 'completed' iff devices_failed = 0, 'partial' iff devices_failed > 0 and
\* devices_synced > 0, 'failed' otherwise; no later step modifies the row.
C21_LogLifecycle == []LogTerminalAtEnd /\ [][LogStep]_vars

\* a fleet run that ended 'partial', and a command started after it that left
\* its row alone
C21_Witness ==
    /\ CommandEnded
    /\ last.device_id = None
    /\ last.ran
    /\ LastLog.status = "partial"
    /\ command # None
    /\ Len(syncLogs) = Len(last.logs) + 2

----------------------------------------------------------------------------
(* Request threads over the cache: the rate_limit decorator and the         *)
(* verification tokens. A thread takes one step per cache operation, so     *)
(* the steps of two requests interleave as the cache serves them.           *)

\* rate_limit(max_requests=5, ...) of dashboard_reset_password
MaxRequests == 5

MaxCalls == 7

\* f without the key k
Drop(f, k) == [x \in DOMAIN f \ {k} |-> f[x]]

\* cache.get(key, default) of a counter
CacheGet(c, key, default) == IF key \in DOMAIN c THEN c[key] ELSE default

get_email_rate_limit_key(email) == "rate_limit:email:" \o email

\* f"email_verification:{purpose}:{email}:{token}"
VerificationKey(purpose, email, token) ==
    "email_verification:" \o purpose \o ":" \o email \o ":" \o token

Answer(t, call, args, result) ==
    [op |-> call, thread |-> t, args |-> args, result |-> result, cache |-> cache]

CacheFrame ==
    UNCHANGED <<sdk, fbApp, fbEnv, store, unreachable, devices, messages,
                notifications, contacts, clock, last, prev, lastRun, statusBy,
                codes, cards, syncLogs, command>>

\* wrapper: the key, cache.get(key, 0), the test against max_requests
RateLimitCheck(t, email) ==
    /\ threads[t].pc = "idle"
    /\ tally.calls < MaxCalls
    /\ IF CacheGet(cache, get_email_rate_limit_key(email), 0) >= MaxRequests
       THEN /\ threads' = threads
            /\ tally' = [tally EXCEPT !.calls = @ + 1,
                                      !.answer = Answer(t, "dashboard_reset_password",
                                                        email, 429)]
       ELSE /\ threads' = [threads EXCEPT ![t] =
                              [pc |-> "set", email |-> email,
                               key |-> get_email_rate_limit_key(email),
                               current |-> CacheGet(cache,
                                                    get_email_rate_limit_key(email), 0)]]
            /\ tally' = [tally EXCEPT !.calls = @ + 1]
    /\ UNCHANGED cache
    /\ CacheFrame

\* wrapper: cache.set(key, current + 1, window_seconds), then the view is called
RateLimitPass(t) ==
    /\ threads[t].pc = "set"
    /\ cache' = Put(cache, threads[t].key, threads[t].current + 1)
    /\ threads' = [threads EXCEPT ![t] = [pc |-> "idle"]]
    /\ tally' = [tally EXCEPT !.passed[threads[t].email] = @ + 1,
                              !.answer = Answer(t, "dashboard_reset_password",
                                                threads[t].email, 200)]
    /\ CacheFrame

\* the timeout of a key runs out. For a rate-limit key that is window_seconds
\* after the last request that got through: a new window begins
Expire(key) ==
    /\ key \in DOMAIN cache
    /\ cache' = Drop(cache, key)
    /\ tally' = [tally EXCEPT !.passed =
                    [e \in Emails |-> IF get_email_rate_limit_key(e) = key
                                      THEN 0 ELSE tally.passed[e]]]
    /\ UNCHANGED threads
    /\ CacheFrame

\* generate_verification_token: secrets.token_urlsafe gives a token nobody
\* holds yet
GenerateVerificationToken(email, purpose) ==
    /\ tally.calls < MaxCalls
    /\ \E token \in Tokens \ tally.issued :
          /\ cache' = Put(cache, VerificationKey(purpose, email, token),
                          [email |-> email, purpose |-> purpose])
          /\ tally' = [tally EXCEPT !.calls = @ + 1,
                                    !.issued = @ \cup {token},
                                    !.answer = Answer(0, "generate_verification_token",
                                                      <<token, email, purpose>>, token)]
    /\ UNCHANGED threads
    /\ CacheFrame

\* the data verify_token accepts: present, with the caller's email and purpose
Accepted(c, key, email, purpose) ==
    /\ key \in DOMAIN c
    /\ c[key].email = email
    /\ c[key].purpose = purpose

\* verify_token: cache.get(key) and the two tests
VerifyTokenGet(t, token, email, purpose) ==
    /\ threads[t].pc = "idle"
    /\ tally.calls < MaxCalls
    /\ IF Accepted(cache, VerificationKey(purpose, email, token), email, purpose)
       THEN /\ threads' = [threads EXCEPT ![t] =
                              [pc |-> "delete", token |-> token, email |-> email,
                               purpose |-> purpose,
                               key |-> VerificationKey(purpose, email, token)]]
            /\ tally' = [tally EXCEPT !.calls = @ + 1]
       ELSE /\ threads' = threads
            /\ tally' = [tally EXCEPT !.calls = @ + 1,
                                      !.answer = Answer(t, "verify_token",
                                                        <<token, email, purpose>>,
                                                        FALSE)]
    /\ UNCHANGED cache
    /\ CacheFrame

\* verify_token: cache.delete(key); return True
VerifyTokenDelete(t) ==
    /\ threads[t].pc = "delete"
    /\ cache' = Drop(cache, threads[t].key)
    /\ threads' = [threads EXCEPT ![t] = [pc |-> "idle"]]
    /\ tally' = [tally EXCEPT !.verified[threads[t].token] = @ + 1,
                              !.answer = Answer(t, "verify_token",
                                                <<threads[t].token, threads[t].email,
                                                  threads[t].purpose>>, TRUE)]
    /\ CacheFrame

InitCache ==
    /\ sdk = TRUE
    /\ fbApp = FALSE
    /\ fbEnv = [url |-> TRUE, creds |-> TRUE]
    /\ store = EmptyStore
    /\ unreachable = {}
    /\ devices = <<>>
    /\ messages = <<>>
    /\ notifications = <<>>
    /\ contacts = <<>>
    /\ clock = 1
    /\ last = NoOp
    /\ prev = NoOp
    /\ lastRun = [x \in Devices |-> "none"]
    /\ statusBy = [x \in Devices |-> "none"]
    /\ codes = <<>>
    /\ cards = <<>>
    /\ syncLogs = <<>>
    /\ command = None
    /\ cache = <<>>
    /\ threads = Idle
    /\ tally = NoTally

NextRateLimit ==
    \/ \E t \in Threads, email \in Emails : RateLimitCheck(t, email)
    \/ \E t \in Threads : RateLimitPass(t)
    \/ \E key \in DOMAIN cache : Expire(key)

SpecRateLimit == InitCache /\ [][NextRateLimit]_vars

NextVerify ==
    \/ \E email \in Emails, purpose \in Purposes : GenerateVerificationToken(email, purpose)
    \/ \E t \in Threads, token \in Tokens, email \in Emails, purpose \in Purposes :
          VerifyTokenGet(t, token, email, purpose)
    \/ \E t \in Threads : VerifyTokenDelete(t)
    \/ \E key \in DOMAIN cache : Expire(key)

SpecVerify == InitCache /\ [][NextVerify]_vars

\* C24: a verification token is single-use: over any interleaving of
\* verify_token calls with the matching email and purpose at most one call
\* returns True.
C24_TokenSingleUse == \A token \in Tokens : tally.verified[token] <= 1

\* C25: for each rate-limit key at most max_requests requests reach the
\* wrapped view within one window, concurrent requests included.
C25_AtMostMaxRequests == \A email \in Emails : tally.passed[email] <= MaxRequests


----------------------------------------------------------------------------
(* Two sync runs at once: the message loops of hard_sync_device_from_firebase *)
(* and sync_messages_from_firebase, one step per database statement. The     *)
(* hard sync writes each record in its own transaction (get_or_create); the  *)
(* message-only sync runs its loop inside transaction.atomic(), so its rows  *)
(* are visible to the other run only after the commit, while the unique      *)
(* constraint of Message (device, timestamp) already sees them.              *)

MaxRuns == 2

TransactionBroken ==
    "An error occurred in the current transaction. You can't execute queries until the end of the 'atomic' block."

DuplicateKey == "duplicate key value violates unique constraint"

\* the keys another run has inserted and not yet committed
HeldByOthers(t) ==
    UNION {{threads[u].acc.rows[j].timestamp : j \in 1..Len(threads[u].acc.rows)} :
              u \in {x \in Threads \ {t} : threads[x].pc \in {"loop", "create"}}}

\* the record the run is at
Current(t) == threads[t].entries[threads[t].i]

\* the insert the run would make for its record waits for another transaction
Blocked(t) ==
    /\ ~int(Current(t).k).raised
    /\ int(Current(t).k).value \in HeldByOthers(t)

RunFrame ==
    UNCHANGED <<sdk, fbEnv, unreachable, devices, notifications, contacts, clock,
                last, prev, lastRun, statusBy, codes, cards, syncLogs, command, cache>>

\* the run has fetched the messages of d and enters its loop
RunLoop(t, kind, d, update_existing, f) ==
    /\ ~f.raised
    /\ Truthy(f.value)
    /\ f.value.kind = "dict"
    /\ fbApp' = f.app
    /\ threads' = [threads EXCEPT ![t] =
                      [pc |-> "loop", kind |-> kind, d |-> d,
                       update_existing |-> update_existing,
                       entries |-> f.value.entries, i |-> 1,
                       acc |-> NewAcc(<<>>, <<>>), broken |-> FALSE,
                       rows0 |-> Len(messages)]]
    /\ tally' = [tally EXCEPT !.calls = @ + 1]
    /\ UNCHANGED <<store, messages>>
    /\ RunFrame

RunStart(t, kind, d, update_existing) ==
    /\ threads[t].pc = "idle"
    /\ tally.calls < MaxRuns
    /\ d \in DOMAIN devices
    /\ RunLoop(t, kind, d, update_existing,
               get_firebase_messages_for_device(sdk, fbApp, fbEnv, store,
                                                unreachable, d, 0))

\* r: the counters and the table after SyncMessageEntry
HardStepDone(t, r) ==
    /\ messages' = r.rows
    /\ threads' = [threads EXCEPT ![t].acc = [r EXCEPT !.rows = <<>>],
                                  ![t].i = @ + 1]
    /\ UNCHANGED <<fbApp, store, tally>>
    /\ RunFrame

\* one iteration of the hard sync's message loop
HardStep(t) ==
    /\ threads[t].pc = "loop"
    /\ threads[t].kind = "hard"
    /\ threads[t].i <= Len(threads[t].entries)
    /\ ~Blocked(t)
    /\ HardStepDone(t, SyncMessageEntry([threads[t].acc EXCEPT !.rows = messages],
                                        threads[t].d, Current(t),
                                        threads[t].update_existing))

\* the thread's record is done with these counters; it goes on at pc
Advance(t, acc, pc, broken) ==
    /\ threads' = [threads EXCEPT ![t].acc = acc, ![t].i = @ + 1, ![t].pc = pc,
                                  ![t].broken = broken]
    /\ UNCHANGED <<fbApp, store, messages, tally>>
    /\ RunFrame

ProcessingError(e, exc) == "Error processing message " \o e.k \o ": " \o exc

\* the message-only loop up to Message.objects.filter(...).exists()
MessagesCheck(t) ==
    /\ threads[t].pc = "loop"
    /\ threads[t].kind = "messages"
    /\ threads[t].i <= Len(threads[t].entries)
    /\ IF int(Current(t).k).raised
       THEN Advance(t, [threads[t].acc EXCEPT !.errors =
                           Append(@, ProcessingError(Current(t), int(Current(t).k).exc))],
                    "loop", threads[t].broken)
       ELSE IF Current(t).shape \notin {"dict", "str"}
       THEN Advance(t, [threads[t].acc EXCEPT !.skipped = @ + 1], "loop",
                    threads[t].broken)
       ELSE IF threads[t].broken
       THEN Advance(t, [threads[t].acc EXCEPT !.errors =
                           Append(@, ProcessingError(Current(t), TransactionBroken))],
                    "loop", TRUE)
       ELSE IF Matching(messages \o threads[t].acc.rows, threads[t].d,
                        int(Current(t).k).value, "timestamp") # {}
       THEN Advance(t, [threads[t].acc EXCEPT !.skipped = @ + 1], "loop", FALSE)
       ELSE /\ threads' = [threads EXCEPT ![t].pc = "create"]
            /\ UNCHANGED <<fbApp, store, messages, tally>>
            /\ RunFrame

\* Message.objects.create(...) of the message-only loop
MessagesCreate(t) ==
    /\ threads[t].pc = "create"
    /\ ~Blocked(t)
    /\ IF Matching(messages, threads[t].d, int(Current(t).k).value, "timestamp") # {}
       THEN Advance(t, [threads[t].acc EXCEPT !.errors =
                           Append(@, ProcessingError(Current(t), DuplicateKey))],
                    "loop", TRUE)
       ELSE Advance(t, [threads[t].acc EXCEPT
                           !.rows = Append(@, [device |-> threads[t].d,
                                               timestamp |-> int(Current(t).k).value,
                                               message_type |->
                                                   NormalizeType(Current(t).v)]),
                           !.created = @ + 1],
                    "loop", FALSE)

\* what a finished run reported
RunResult(t, errors) ==
    [thread |-> t, kind |-> threads[t].kind, d |-> threads[t].d,
     entries |-> threads[t].entries, rows0 |-> threads[t].rows0,
     created |-> threads[t].acc.created, updated |-> threads[t].acc.updated,
     skipped |-> threads[t].acc.skipped, errors |-> errors]

\* the hard sync leaves its message loop
HardEnd(t) ==
    /\ threads[t].pc = "loop"
    /\ threads[t].kind = "hard"
    /\ threads[t].i > Len(threads[t].entries)
    /\ threads' = [threads EXCEPT ![t] = [pc |-> "idle"]]
    /\ tally' = [tally EXCEPT !.runs = Append(@, RunResult(t, threads[t].acc.errors))]
    /\ UNCHANGED <<fbApp, store, messages>>
    /\ RunFrame

\* c: what clean_firebase_messages did
MessagesCleaned(t, c) ==
    /\ store' = IF c.raised THEN store ELSE c.store
    /\ fbApp' = c.app
    /\ tally' = [tally EXCEPT !.runs =
                    Append(@, RunResult(t, IF c.raised
                                           THEN Append(threads[t].acc.errors,
                                                       "Error cleaning Firebase: " \o c.exc)
                                           ELSE threads[t].acc.errors))]

\* the message-only sync leaves its atomic block (commit, or rollback when an
\* error has marked the transaction), then cleans the store
MessagesEnd(t, keep_latest) ==
    /\ threads[t].pc = "loop"
    /\ threads[t].kind = "messages"
    /\ threads[t].i > Len(threads[t].entries)
    /\ messages' = IF threads[t].broken THEN messages
                    ELSE messages \o threads[t].acc.rows
    /\ threads' = [threads EXCEPT ![t] = [pc |-> "idle"]]
    /\ MessagesCleaned(t, clean_firebase_messages(sdk, fbApp, fbEnv, store, unreachable,
                                                  threads[t].d, keep_latest))
    /\ RunFrame

\* D1 is registered; the table is empty or holds message 100 already
RunTables ==
    { <<>>, <<[device |-> "D1", timestamp |-> 100, message_type |-> "sent"]>> }

InitRuns ==
    /\ sdk = TRUE
    /\ fbApp = FALSE
    /\ fbEnv = [url |-> TRUE, creds |-> TRUE]
    /\ store \in {StoreTwo, StoreOneBad}
    /\ unreachable = {}
    /\ devices = [x \in {"D1"} |-> NewDevice(None, "never_synced")]
    /\ messages \in RunTables
    /\ notifications = <<>>
    /\ contacts = <<>>
    /\ clock = 1
    /\ last = NoOp
    /\ prev = NoOp
    /\ lastRun = [x \in Devices |-> "none"]
    /\ statusBy = [x \in Devices |-> "register"]
    /\ codes = <<>>
    /\ cards = <<>>
    /\ syncLogs = <<>>
    /\ command = None
    /\ cache = <<>>
    /\ threads = Idle
    /\ tally = NoTally

NextRuns ==
    \/ \E t \in Threads, kind \in {"hard", "messages"}, ue \in BOOLEAN :
          RunStart(t, kind, "D1", ue)
    \/ \E t \in Threads : HardStep(t)
    \/ \E t \in Threads : MessagesCheck(t)
    \/ \E t \in Threads : MessagesCreate(t)
    \/ \E t \in Threads : HardEnd(t)
    \/ \E t \in Threads : MessagesEnd(t, 5)

SpecRuns == InitRuns /\ [][NextRuns]_vars

\* two runs have ended, and they fetched the same external data
TwoRunsOver ==
    /\ Len(tally.runs) >= 2
    /\ tally.runs[1].entries = tally.runs[2].entries
    /\ \A t \in Threads : threads[t].pc = "idle"

\* the errors a run reports when it runs alone: its malformed keys
OwnErrors(run) ==
    {ProcessingError(run.entries[j], int(run.entries[j].k).exc) :
        j \in {x \in 1..Len(run.entries) : int(run.entries[x].k).raised}}

\* the records of a run that stand for a message
MessagesOf(run) ==
    {j \in 1..Len(run.entries) :
        ~int(run.entries[j].k).raised /\ run.entries[j].shape \in {"dict", "str"}}

OneRowEach ==
    TwoRunsOver =>
        \A j \in MessagesOf(tally.runs[1]) :
            Cardinality(Matching(messages, "D1", int(tally.runs[1].entries[j].k).value,
                                 "timestamp")) = 1

CreatedOnce ==
    TwoRunsOver =>
        tally.runs[1].created + tally.runs[2].created
            = Len(messages) - (IF tally.runs[1].rows0 < tally.runs[2].rows0
                               THEN tally.runs[1].rows0 ELSE tally.runs[2].rows0)

NoForeignError ==
    TwoRunsOver =>
        \A n \in 1..2 : \A j \in 1..Len(tally.runs[n].errors) :
            tally.runs[n].errors[j] \in OwnErrors(tally.runs[n])

\* C28: after two concurrent sync runs for the same device over the same
\* external data, each remote message is exactly one Message row, is counted
\* as created by exactly one of the runs, and neither run reports an error
\* caused by the other run.
C28_ConcurrentRunsConsistent == OneRowEach /\ CreatedOnce /\ NoForeignError

====
